---- MODULE Spec2Model ----
(***************************************************************************)
(* State-machine model of the LookAPI scenario engine                      *)
(* (src-tauri/src/scenario): the sequential scenario executor              *)
(* (executor.rs) and the load-mode performance executor                    *)
(* (performance/executor.rs).                                              *)
(*                                                                         *)
(* Conventions.                                                            *)
(*  - Option<T> is a sequence of length 0 (None) or 1 (Some(x)).           *)
(*  - HashMap<String, V> is a function whose domain is the set of keys.    *)
(*  - A Rust string that the code inspects or interpolates is a Text: a    *)
(*    sequence of tokens, each a literal [lit |-> s] or a placeholder      *)
(*    [ph |-> <<segments>>] standing for the source text {{a.b}}.  The     *)
(*    tokens "http://", "https://" and "/" are kept as tokens of their     *)
(*    own, so that starts_with and trim_end_matches are decided on tokens. *)
(*  - serde_json::Value is a record tagged by k: null, str, num, obj, arr. *)
(*  - Wall-clock durations of a run and of a step are not modelled; the    *)
(*    duration of an HTTP exchange is part of the stubbed response.        *)
(***************************************************************************)
EXTENDS Integers, Sequences, FiniteSets, TLC

(* ------------------------------ bounds --------------------------------- *)
\* longest step list handed to an executor
MaxSteps == 2
\* most data rows in the CSV file
MaxRows == 2

(* --------------------------- Option, HashMap --------------------------- *)
None == <<>>
Some(x) == <<x>>
IsSome(o) == Len(o) = 1
IsNone(o) == Len(o) = 0
Unwrap(o) == o[1]

EmptyMap == <<>>
MapInsert(m, key, v) == [x \in (DOMAIN m) \cup {key} |-> IF x = key THEN v ELSE m[x]]
MapRemove(m, key) == [x \in (DOMAIN m) \ {key} |-> m[x]]
\* for (k, v) in src { m.insert(k, v) }
MapExtend(m, src) == [x \in (DOMAIN m) \cup (DOMAIN src) |-> IF x \in DOMAIN src THEN src[x] ELSE m[x]]

(* ------------------------------- Text ---------------------------------- *)
L(s) == [lit |-> s]
P(path) == [ph |-> path]
T(s) == <<L(s)>>
IsPlaceholder(tok) == "ph" \in DOMAIN tok
StartsWith(text, s) == Len(text) > 0 /\ text[1] = L(s)

RECURSIVE TrimEndMatches(_, _)
TrimEndMatches(text, s) ==
    IF Len(text) > 0 /\ text[Len(text)] = L(s)
    THEN TrimEndMatches(SubSeq(text, 1, Len(text) - 1), s)
    ELSE text

(* -------------------------- serde_json::Value -------------------------- *)
JNull == [k |-> "null"]
JStr(t) == [k |-> "str", s |-> t]
JNum(n) == [k |-> "num", n |-> n]
JObj(m) == [k |-> "obj", o |-> m]
JArr(a) == [k |-> "arr", a |-> a]

\* Value::get(&str): a member of an object, None for anything else
JGetKey(v, key) ==
    IF v.k = "obj" /\ key \in DOMAIN v.o THEN Some(v.o[key]) ELSE None
\* Value::get(usize): an element of an array (0-based), None otherwise
JGetIndex(v, i) ==
    IF v.k = "arr" /\ i + 1 \in DOMAIN v.a THEN Some(v.a[i + 1]) ELSE None
AsNumberOrOne(v) == IF v.k = "num" THEN v.n ELSE 1

\* Value::as_f64().unwrap_or(0.0) on the integers the model uses
AsNumberOrZero(v) == IF v.k = "num" THEN v.n ELSE 0

\* the replacement text of a resolved placeholder:
\* String -> the string itself, Number -> its decimal form, anything else ->
\* Value::to_string() (null is "null"; an object or array is its JSON text,
\* kept as one opaque token)
value_to_string(v) ==
    CASE v.k = "str" -> v.s
      [] v.k = "num" -> T(ToString(v.n))
      [] v.k = "null" -> T("null")
      [] OTHER -> T("<json>")

(* ------------------- value resolver (executor.rs 756-835) -------------- *)
RECURSIVE JoinDots(_)
\* the captured variable path as one key: "item.n"
JoinDots(path) ==
    IF Len(path) = 1 THEN path[1] ELSE path[1] \o "." \o JoinDots(Tail(path))

\* one regex capture {{ a }} or {{ a.b }}: the text that replaces it, or the
\* placeholder itself when nothing resolves it
ResolvePlaceholder(tok, vars) ==
    LET var_path == tok.ph
        nested == /\ Len(var_path) = 2
                  /\ var_path[1] \in DOMAIN vars
                  /\ vars[var_path[1]].k = "obj"
                  /\ var_path[2] \in DOMAIN vars[var_path[1]].o
    IN  IF nested THEN value_to_string(vars[var_path[1]].o[var_path[2]])
        ELSE IF JoinDots(var_path) \in DOMAIN vars
             THEN value_to_string(vars[JoinDots(var_path)])
             ELSE <<tok>>

RECURSIVE resolve_variables(_, _)
resolve_variables(input, vars) ==
    IF input = <<>> THEN <<>>
    ELSE LET tok == Head(input)
             rest == resolve_variables(Tail(input), vars)
         IN  IF IsPlaceholder(tok) THEN ResolvePlaceholder(tok, vars) \o rest
             ELSE <<tok>> \o rest

RECURSIVE resolve_variables_in_json(_, _)
resolve_variables_in_json(value, vars) ==
    CASE value.k = "str" -> JStr(resolve_variables(value.s, vars))
      [] value.k = "obj" ->
            JObj([key \in DOMAIN value.o |-> resolve_variables_in_json(value.o[key], vars)])
      [] value.k = "arr" ->
            JArr([i \in DOMAIN value.a |-> resolve_variables_in_json(value.a[i], vars)])
      [] OTHER -> value

(* ------------------ base-URL resolution (executor.rs 726-754) ---------- *)
DefaultBaseUrl == <<L("http://"), L("localhost:8080")>>

resolve_url(url, base_url) ==
    IF StartsWith(url, "http://") \/ StartsWith(url, "https://") THEN url
    ELSE IF StartsWith(url, "/")
         THEN IF IsSome(base_url)
              THEN TrimEndMatches(Unwrap(base_url), "/") \o url
              ELSE DefaultBaseUrl \o url
         ELSE url

(* ------------------ JSON path extractor (executor.rs 855-878) ---------- *)
\* A path is the list of its '.'-separated parts.  A part is
\* [key |-> k, bracket |-> FALSE] for "k", and
\* [key |-> k, bracket |-> TRUE, index |-> i] for "k[..]", where index is
\* the Option of parsing the text between the brackets as usize.
Part(key) == [key |-> key, bracket |-> FALSE]
PartAt(key, i) == [key |-> key, bracket |-> TRUE, index |-> Some(i)]

\* one part applied to the current value; None is the early return of `?`
ApplyPart(current, part) ==
    IF part.bracket
    THEN LET afterKey == IF part.key # "" THEN JGetKey(current, part.key) ELSE Some(current)
         IN  IF IsNone(afterKey) THEN None
             ELSE IF IsSome(part.index) THEN JGetIndex(Unwrap(afterKey), Unwrap(part.index))
                  ELSE afterKey
    ELSE JGetKey(current, part.key)

RECURSIVE extract_json_path(_, _)
extract_json_path(value, path) ==
    IF path = <<>> THEN Some(value)
    ELSE LET next == ApplyPart(value, Head(path))
         IN  IF IsNone(next) THEN None ELSE extract_json_path(Unwrap(next), Tail(path))

UnwrapOr(o, d) == IF IsSome(o) THEN Unwrap(o) ELSE d

(* ------------------ extractors (executor.rs 838-852) ------------------- *)
\* extractor: [name, source, path, header, default_value]; path is used for
\* source "body" and header (the header name) for source "header"
extract_variable(extractor, response) ==
    CASE extractor.source = "status" -> JNum(response.status)
      [] extractor.source = "header" ->
            IF extractor.header \in DOMAIN response.headers
            THEN JStr(response.headers[extractor.header])
            ELSE UnwrapOr(extractor.default_value, JNull)
      [] extractor.source = "body" ->
            UnwrapOr(extract_json_path(response.body, extractor.path),
                     UnwrapOr(extractor.default_value, JNull))
      [] OTHER -> UnwrapOr(extractor.default_value, JNull)

(* ------------------ assertions (executor.rs 881-1009) ------------------ *)
\* str::contains on texts, token by token
TextContains(text, sub) ==
    \E i \in 0..(Len(text) - Len(sub)) : SubSeq(text, i + 1, i + Len(sub)) = sub

\* Regex::new(pattern).map(|re| re.is_match(text)).unwrap_or(false) for the
\* patterns of the model: a pattern of plain tokens matches where it occurs,
\* a pattern holding the token "(" (a group left open) does not compile
RegexIsMatch(pattern, text) ==
    /\ \A i \in DOMAIN pattern : pattern[i] # L("(")
    /\ TextContains(text, pattern)

\* (passed, error); the operands of "contains" and "matches" are compared as
\* texts, a value that is no string by its to_string()
compare_values(actual, expected, operator) ==
    CASE operator = "equals" ->
            [passed |-> actual = expected,
             error |-> IF actual = expected THEN None ELSE Some("Expected but got")]
      [] operator = "notEquals" ->
            [passed |-> actual # expected,
             error |-> IF actual # expected THEN None ELSE Some("Expected value to not equal")]
      [] operator = "contains" ->
            LET passed == TextContains(value_to_string(actual), value_to_string(expected))
            IN  [passed |-> passed,
                 error |-> IF passed THEN None ELSE Some("Expected to contain")]
      [] operator = "matches" ->
            LET passed == RegexIsMatch(value_to_string(expected), value_to_string(actual))
            IN  [passed |-> passed,
                 error |-> IF passed THEN None ELSE Some("Expected to match pattern")]
      [] operator = "greaterThan" ->
            [passed |-> AsNumberOrZero(actual) > AsNumberOrZero(expected),
             error |-> IF AsNumberOrZero(actual) > AsNumberOrZero(expected) THEN None
                       ELSE Some("Expected to be greater than")]
      [] operator = "lessThan" ->
            [passed |-> AsNumberOrZero(actual) < AsNumberOrZero(expected),
             error |-> IF AsNumberOrZero(actual) < AsNumberOrZero(expected) THEN None
                       ELSE Some("Expected to be less than")]
      [] operator = "exists" ->
            [passed |-> actual # JNull,
             error |-> IF actual # JNull THEN None
                       ELSE Some("Expected value to exist but got null")]
      [] OTHER -> [passed |-> FALSE, error |-> Some("Unknown operator: " \o operator)]

\* assertion: [name, source, path (Option), header (Option), operator, expected]
evaluate_assertion(assertion, response, duration_ms) ==
    LET actual ==
            CASE assertion.source = "status" -> JNum(response.status)
              [] assertion.source = "duration" -> JNum(duration_ms)
              [] assertion.source = "header" ->
                    IF IsSome(assertion.header)
                       /\ Unwrap(assertion.header) \in DOMAIN response.headers
                    THEN JStr(response.headers[Unwrap(assertion.header)])
                    ELSE JNull
              [] assertion.source = "body" ->
                    IF IsSome(assertion.path)
                    THEN UnwrapOr(extract_json_path(response.body, Unwrap(assertion.path)), JNull)
                    ELSE response.body
              [] OTHER -> JNull
        cmp == compare_values(actual, assertion.expected, assertion.operator)
    IN  [name |-> assertion.name, source |-> assertion.source, path |-> assertion.path,
         header |-> assertion.header, operator |-> assertion.operator,
         expected |-> assertion.expected, actual |-> Some(actual),
         passed |-> Some(cmp.passed), error |-> cmp.error]

(* ------------------------- the step catalogue -------------------------- *)
\* Request step configs as serde_json decodes them into RequestStepConfig
\* (valid = FALSE: the JSON does not decode).  The step lists of the model
\* are drawn from these steps.
RequestConfig(method, url, headers, body, extract, assertions, csv) ==
    [valid |-> TRUE, method |-> method, url |-> url, headers |-> headers,
     params |-> None, body |-> body, extract_variables |-> extract,
     assertions |-> assertions, with_items_from_csv |-> csv]
InvalidConfig == [valid |-> FALSE]

TokExtractor ==
    [name |-> "tok", source |-> "body", path |-> <<Part("token")>>,
     header |-> "", default_value |-> None]
IndexExtractor ==
    [name |-> "index", source |-> "status", path |-> <<>>,
     header |-> "", default_value |-> None]
StatusIs200 ==
    [name |-> "status is 200", source |-> "status", path |-> None, header |-> None,
     operator |-> "equals", expected |-> JNum(200)]

CsvFileName == "data.csv"

Catalogue ==
    [login |-> [step_type |-> "request",
                config |-> RequestConfig("post", <<L("/"), L("login")>>, None,
                              Some(JObj([u |-> JStr(T("a"))])),
                              Some(<<TokExtractor, IndexExtractor>>), None, None)],
     me |-> [step_type |-> "request",
             config |-> RequestConfig("GET", <<L("/"), L("me")>>,
                           Some("Authorization" :> <<L("Bearer "), P(<<"tok">>)>>),
                           None, None, Some(<<StatusIs200>>), None)],
     items |-> [step_type |-> "request",
                config |-> RequestConfig("POST", <<L("/"), L("items")>>,
                              Some("X-Index" :> <<P(<<"index">>)>>),
                              Some(JObj([name |-> JStr(<<P(<<"item", "n">>)>>)])),
                              None, None, Some([file_name |-> CsvFileName]))],
     badcfg |-> [step_type |-> "request", config |-> InvalidConfig],
     badmethod |-> [step_type |-> "request",
                    config |-> RequestConfig("TRACE", <<L("/"), L("x")>>,
                                  None, None, None, None, None)],
     condition |-> [step_type |-> "condition", config |-> [valid |-> TRUE]],
     loop |-> [step_type |-> "loop", config |-> [valid |-> TRUE]]]

StepNames == DOMAIN Catalogue

\* str::to_uppercase on the method names of the catalogue
to_uppercase(m) == IF m = "post" THEN "POST" ELSE m
SupportedMethods == {"GET", "POST", "PUT", "DELETE", "PATCH"}

(* ----------------------- the stubbed HTTP exchange --------------------- *)
\* What req.send() can give: a transport failure, or a response with its
\* status, headers, body and elapsed time.
TransportFailure == [ok |-> FALSE]
Responses ==
    { TransportFailure,
      [ok |-> TRUE, status |-> 200, headers |-> EmptyMap,
       body |-> JObj([token |-> JStr(T("T"))]), duration_ms |-> 10],
      [ok |-> TRUE, status |-> 500, headers |-> EmptyMap,
       body |-> JObj([error |-> JStr(T("E"))]), duration_ms |-> 25] }

(* ---------------- the step executor (executor.rs 349-723) -------------- *)
ErrorResultAsFailed(step, request, msg) ==
    [step_id |-> step.id, name |-> step.name, step_type |-> step.step_type,
     status |-> "failed", request |-> request, response |-> None,
     assertions |-> None, error |-> Some(msg), extracted_variables |-> None]

\* the result of a step that could not be carried out
ErrorResult(step, request, msg) ==
    [step_id |-> step.id, name |-> step.name, step_type |-> step.step_type,
     status |-> "error", request |-> request, response |-> None,
     assertions |-> None, error |-> Some(msg), extracted_variables |-> None]

PassedNoop(step) ==
    [step_id |-> step.id, name |-> step.name, step_type |-> step.step_type,
     status |-> "passed", request |-> None, response |-> None,
     assertions |-> None, error |-> None, extracted_variables |-> None]

\* headers: every value interpolated
ResolveHeaders(config, vars) ==
    IF IsSome(config.headers)
    THEN [h \in DOMAIN Unwrap(config.headers) |-> resolve_variables(Unwrap(config.headers)[h], vars)]
    ELSE EmptyMap

\* body: config.body, else config.params, and nothing at all for GET
ResolveBody(config, method, vars) ==
    IF method = "GET" THEN None
    ELSE IF IsSome(config.body) THEN Some(resolve_variables_in_json(Unwrap(config.body), vars))
    ELSE IF IsSome(config.params) THEN Some(resolve_variables_in_json(Unwrap(config.params), vars))
    ELSE None

\* extractors run on the response; a later one of the same name overwrites
RECURSIVE ExtractAll(_, _)
ExtractAll(extractors, response) ==
    IF extractors = <<>> THEN EmptyMap
    ELSE LET last == extractors[Len(extractors)]
         IN  MapInsert(ExtractAll(SubSeq(extractors, 1, Len(extractors) - 1), response),
                       last.name, extract_variable(last, response))

StepStatusStrict(all_passed, response) ==
    IF all_passed /\ response.status < 400 THEN "passed" ELSE "failed"

\* executor.rs 598-602
StepStatus(all_passed, response) ==
    IF all_passed THEN "passed" ELSE "failed"

execute_request_step(step, vars, base_url, http) ==
    LET config == step.config IN
    IF ~config.valid THEN ErrorResult(step, None, "Invalid step config")
    ELSE
    LET url == resolve_url(resolve_variables(config.url, vars), base_url)
        method == to_uppercase(config.method)
    IN
    IF method \notin SupportedMethods
    THEN ErrorResult(step, None, "Unsupported method: " \o method)
    ELSE
    LET step_request == [method |-> method, url |-> url,
                         headers |-> ResolveHeaders(config, vars),
                         body |-> ResolveBody(config, method, vars)]
    IN
    IF ~http.ok THEN ErrorResult(step, Some(step_request), "Request failed")
    ELSE
    LET step_response == [status |-> http.status, headers |-> http.headers,
                          body |-> http.body, duration_ms |-> http.duration_ms]
        extracted == IF IsSome(config.extract_variables)
                     THEN ExtractAll(Unwrap(config.extract_variables), step_response)
                     ELSE EmptyMap
        assertions_results ==
            IF IsSome(config.assertions)
            THEN [i \in DOMAIN Unwrap(config.assertions) |->
                    evaluate_assertion(Unwrap(config.assertions)[i], step_response,
                                       http.duration_ms)]
            ELSE <<>>
        all_passed == \A i \in DOMAIN assertions_results :
                          assertions_results[i].passed = Some(TRUE)
    IN  [step_id |-> step.id, name |-> step.name, step_type |-> step.step_type,
         status |-> StepStatus(all_passed, step_response),
         request |-> Some(step_request), response |-> Some(step_response),
         assertions |-> Some(assertions_results), error |-> None,
         extracted_variables |-> Some(extracted)]

execute_delay_step(step) ==
    IF ~step.config.valid THEN ErrorResult(step, None, "Invalid delay config")
    ELSE PassedNoop(step)

execute_script_step(step) ==
    IF ~step.config.valid THEN ErrorResult(step, None, "Invalid script config")
    ELSE PassedNoop(step)

execute_loop_stepFailing(step) == [PassedNoop(step) EXCEPT !.status = "failed"]

execute_condition_step(step) == PassedNoop(step)

execute_loop_step(step) == PassedNoop(step)

execute_step(step, vars, base_url, http) ==
    CASE step.step_type = "request" -> execute_request_step(step, vars, base_url, http)
      [] step.step_type = "delay" -> execute_delay_step(step)
      [] step.step_type = "script" -> execute_script_step(step)
      [] step.step_type = "condition" -> execute_condition_step(step)
      [] step.step_type = "loop" -> execute_loop_step(step)

(* ======================= scenario mode: the state ====================== *)
VARIABLES
    steps,              \* the step list handed to the executor
    scenario_variables, \* scenario.variables
    base_url,           \* the project's base URL, an Option
    csv_file,           \* the CSV file on disk: None when missing, else Some(rows)
    pc,                 \* where execute_scenario stands
    variables,          \* self.variables
    enabled_steps,      \* the enabled steps, sorted by step_order
    total_steps,        \* enabled_steps.len()
    index,              \* iterations of the step loop completed so far
    csv_records,        \* rows of the CSV expansion under way, an Option
    csv_index,          \* rows of it executed so far
    results,
    passed_steps,
    failed_steps,
    skipped_steps,
    error_message,
    events,             \* what app.emit has sent, in order
    run                 \* the TestScenarioRun returned, an Option

scenarioVars ==
    <<steps, scenario_variables, base_url, csv_file, pc, variables, enabled_steps,
      total_steps, index, csv_records, csv_index, results, passed_steps,
      failed_steps, skipped_steps, error_message, events, run>>


(* ========================= load mode: the state ======================== *)
VARIABLES
    perf_pc,            \* where PerformanceExecutor::run stands
    perf_steps,         \* self.steps
    perf_config,        \* self.config: stages and the iterations cap
    perf_enabled,       \* enabled_steps of run(): filtered, in the order given
    elapsed,            \* whole seconds since the scheduler's start_time
    stop_signal,
    current_vus,
    max_vus_reached,
    iteration_counter,
    manager,            \* the VU manager task: pc, VUs still to spawn, next_vu_id
    vus,                \* the spawned VU tasks, by vu_id + 1
    metrics,            \* MetricsCollector.metrics, in arrival order
    reporter,           \* the progress reporter task: pc, last_stage_index
    perf_events,        \* perf-started, perf-stage-changed, perf-completed, in order
    final_metrics,      \* final_metrics of run(), an Option
    perf_run            \* the PerformanceTestRun returned, an Option

perfVars ==
    <<perf_pc, perf_steps, perf_config, perf_enabled, elapsed, stop_signal,
      current_vus, max_vus_reached, iteration_counter, manager, vus, metrics,
      reporter, perf_events, final_metrics, perf_run>>

\* what the manager and the VUs leave alone
reportVars == <<reporter, perf_events, final_metrics, perf_run>>

(* ================= components on their own: the state ================== *)
VARIABLES
    scheduler,          \* a StageScheduler, its clock, and one poller of it
    collector,          \* a MetricsCollector, its clock, and what was read from it
    call,               \* a function of the program, its arguments and what it returned
    database            \* the rows of test_scenario_steps and the last command on them

unitVars == <<scheduler, collector, call, database>>

(* ------------------------------ inputs --------------------------------- *)
StepId(i) == "s" \o ToString(i)

\* step_order of the i-th of n steps: ascending, or descending so that the
\* list arrives unsorted
StepOrders(n) == { [i \in 1..n |-> i - 1], [i \in 1..n |-> n - i] }

\* each step of the catalogue at most once
Injections(D, R) == { f \in [D -> R] : \A x, y \in D : f[x] = f[y] => x = y }

StepLists ==
    UNION { { [i \in 1..n |->
                 [id |-> StepId(i), step_order |-> order[i],
                  step_type |-> Catalogue[names[i]].step_type, name |-> names[i],
                  config |-> Catalogue[names[i]].config, enabled |-> en[i]]] :
              names \in Injections(1..n, StepNames), en \in [1..n -> BOOLEAN],
              order \in StepOrders(n) } : n \in 0..MaxSteps }

CsvRow(k) == [n |-> "R" \o ToString(k)]
CsvFiles == {None} \cup { Some([k \in 1..n |-> CsvRow(k)]) : n \in 0..MaxRows }

ProjectBaseUrls == {Some(<<L("http://"), L("host"), L("/")>>)}

ScenarioVariables ==
    JObj([baseUrl |-> JStr(<<L("http://"), L("scenario")>>), user |-> JStr(T("a"))])

(* --------------- helpers of execute_scenario (executor.rs 50-346) ------- *)
RECURSIVE FilterEnabled(_)
\* steps.iter().filter(|s| s.enabled)
FilterEnabled(list) ==
    IF list = <<>> THEN <<>>
    ELSE IF Head(list).enabled
         THEN <<Head(list)>> \o FilterEnabled(Tail(list))
         ELSE FilterEnabled(Tail(list))

RECURSIVE InsertSorted(_, _)
InsertSorted(sorted, s) ==
    IF sorted = <<>> THEN <<s>>
    ELSE IF Head(sorted).step_order <= s.step_order
         THEN <<Head(sorted)>> \o InsertSorted(Tail(sorted), s)
         ELSE <<s>> \o sorted

RECURSIVE sort_by_step_order(_)
\* sort_by_key(|s| s.step_order): stable
sort_by_step_order(list) ==
    IF list = <<>> THEN <<>>
    ELSE InsertSorted(sort_by_step_order(SubSeq(list, 1, Len(list) - 1)), list[Len(list)])

EnabledStepsUnfiltered(list) == sort_by_step_order(list)

EnabledStepsUnsorted(list) == FilterEnabled(list)

\* executor.rs 88-89
EnabledSteps(list) == sort_by_step_order(FilterEnabled(list))

\* read_csv_to_records (csv_reader.rs 15-55): an error when the file is
\* missing, else one header-keyed record per data row
read_csv_to_records(file) ==
    IF IsNone(file) THEN [ok |-> FALSE, error |-> "CSV file not found"]
    ELSE [ok |-> TRUE, records |-> Unwrap(file)]

\* executor.rs 116-140: what the CSV check of a step leaves in csv_records
\* and in error_message
CsvCheck(step, file, msg) ==
    IF step.step_type = "request" /\ step.config.valid
       /\ IsSome(step.config.with_items_from_csv)
    THEN LET r == read_csv_to_records(file)
         IN  IF r.ok THEN [records |-> Some(r.records), error_message |-> msg]
             ELSE [records |-> None, error_message |-> Some("Failed to read CSV: " \o r.error)]
    ELSE [records |-> None, error_message |-> msg]

ItemObjectOfNulls(record) == JObj([key \in DOMAIN record |-> JNull])

\* executor.rs 149-155: item is the row as an object of strings
ItemObject(record) == JObj([key \in DOMAIN record |-> JStr(T(record[key]))])

\* executor.rs 173-200 and 253-278: the counters after one step result
TallyErrorUncounted(status, c) ==
    CASE status = "passed" -> [c EXCEPT !.passed = @ + 1]
      [] status = "failed" -> [c EXCEPT !.failed = @ + 1]
      [] status = "skipped" -> [c EXCEPT !.skipped = @ + 1]
      [] OTHER -> c

Tally(status, c) ==
    CASE status = "passed" -> [c EXCEPT !.passed = @ + 1]
      [] status = "failed" -> [c EXCEPT !.failed = @ + 1]
      [] status = "skipped" -> [c EXCEPT !.skipped = @ + 1]
      [] status = "error" -> [c EXCEPT !.failed = @ + 1]
      [] OTHER -> c

\* error_message keeps the first error of a failed or errored step
NextErrorMessage(msg, result) ==
    IF result.status \in {"failed", "error"} /\ IsNone(msg) THEN result.error ELSE msg

\* executor.rs 202-207 and 280-285
MergeExtracted(vars, result) ==
    IF IsSome(result.extracted_variables)
    THEN MapExtend(vars, Unwrap(result.extracted_variables))
    ELSE vars

RetractRowItemOnly(vars) == MapRemove(vars, "item")

\* executor.rs 229-231: item and index are removed after the last row
RetractRow(vars) == MapRemove(MapRemove(vars, "item"), "index")

RunStatusByPassed(failed, passed) == IF passed = 0 THEN "failed" ELSE "passed"

\* executor.rs 311-319
RunStatus(failed, passed) == IF failed > 0 THEN "failed" ELSE "passed"

RunTotalStepsEnabled(res, enabled) == Len(enabled)

\* executor.rs 325
RunTotalSteps(res, enabled) == Len(res)

(* ===================== scenario mode: the operations =================== *)
RunId == "run-1"

StepStarted(step_id, step_index) ==
    [event |-> "step-started", run_id |-> RunId, step_id |-> step_id,
     step_index |-> step_index]

\* progress_percentage is completed_count / total_steps * 100; the event
\* keeps the two integers.  Its copy of the step result is left out: it is
\* the entry pushed on results in the same step.
StepCompleted(step_id, step_index, result, completed_count, total) ==
    [event |-> "step-completed", run_id |-> RunId, step_id |-> step_id,
     step_index |-> step_index, status |-> result.status,
     completed_count |-> completed_count, total_steps |-> total]

ScenarioInit ==
    /\ steps \in StepLists
    /\ scenario_variables = ScenarioVariables
    /\ base_url \in ProjectBaseUrls
    /\ csv_file \in CsvFiles
    /\ pc = "ready"
    /\ variables = EmptyMap
    /\ enabled_steps = <<>>
    /\ total_steps = 0
    /\ index = 0
    /\ csv_records = None
    /\ csv_index = 0
    /\ results = <<>>
    /\ passed_steps = 0
    /\ failed_steps = 0
    /\ skipped_steps = 0
    /\ error_message = None
    /\ events = <<>>
    /\ run = None

\* executor.rs 56-110: seed the variables, inject baseUrl, filter and sort
\* the steps, emit scenario-started
ExecuteScenarioStart ==
    /\ pc = "ready"
    /\ LET seeded == IF scenario_variables.k = "obj"
                     THEN MapExtend(variables, scenario_variables.o)
                     ELSE variables
           base_url_value == IF IsSome(base_url) THEN Unwrap(base_url) ELSE DefaultBaseUrl
       IN  variables' = MapInsert(seeded, "baseUrl", JStr(base_url_value))
    /\ enabled_steps' = EnabledSteps(steps)
    /\ total_steps' = Len(EnabledSteps(steps))
    /\ events' = Append(events, [event |-> "scenario-started", run_id |-> RunId,
                                 total_steps |-> Len(EnabledSteps(steps))])
    /\ pc' = "loop"
    /\ UNCHANGED perfVars
    /\ UNCHANGED unitVars
    /\ UNCHANGED <<steps, scenario_variables, base_url, csv_file, index, csv_records,
                   csv_index, results, passed_steps, failed_steps, skipped_steps,
                   error_message, run>>

CurrentStep == enabled_steps[index + 1]
Counters == [passed |-> passed_steps, failed |-> failed_steps, skipped |-> skipped_steps]

\* executor.rs 112-140, 232-305: a step without CSV records is executed once
ExecuteStepOnce ==
    /\ pc = "loop"
    /\ index < Len(enabled_steps)
    /\ LET step == CurrentStep
           chk == CsvCheck(step, csv_file, error_message)
       IN  /\ IsNone(chk.records)
           /\ \E http \in Responses :
                LET step_result == execute_step(step, variables, base_url, http)
                    c == Tally(step_result.status, Counters)
                IN  /\ passed_steps' = c.passed
                    /\ failed_steps' = c.failed
                    /\ skipped_steps' = c.skipped
                    /\ error_message' = NextErrorMessage(chk.error_message, step_result)
                    /\ variables' = MergeExtracted(variables, step_result)
                    /\ results' = Append(results, step_result)
                    /\ events' = events \o
                          << StepStarted(step.id, index),
                             StepCompleted(step.id, index, step_result, index + 1, total_steps) >>
    /\ index' = index + 1
    /\ UNCHANGED perfVars
    /\ UNCHANGED unitVars
    /\ UNCHANGED <<steps, scenario_variables, base_url, csv_file, pc, enabled_steps,
                   total_steps, csv_records, csv_index, run>>

\* executor.rs 116-125, 143: the CSV file was read, the row loop starts
BeginCsvExpansion ==
    /\ pc = "loop"
    /\ index < Len(enabled_steps)
    /\ LET chk == CsvCheck(CurrentStep, csv_file, error_message)
       IN  /\ IsSome(chk.records)
           /\ csv_records' = chk.records
           /\ error_message' = chk.error_message
    /\ csv_index' = 0
    /\ pc' = "rows"
    /\ UNCHANGED perfVars
    /\ UNCHANGED unitVars
    /\ UNCHANGED <<steps, scenario_variables, base_url, csv_file, variables,
                   enabled_steps, total_steps, index, results, passed_steps,
                   failed_steps, skipped_steps, events, run>>

\* executor.rs 145-227: one row of the expansion
ExecuteCsvRow ==
    /\ pc = "rows"
    /\ csv_index < Len(Unwrap(csv_records))
    /\ LET step == CurrentStep
           record == Unwrap(csv_records)[csv_index + 1]
           bound == MapInsert(MapInsert(variables, "item", ItemObject(record)),
                              "index", JNum(csv_index))
           row_id == step.id \o "-" \o ToString(csv_index)
       IN  \E http \in Responses :
                LET step_result == execute_step(step, bound, base_url, http)
                    c == Tally(step_result.status, Counters)
                IN  /\ passed_steps' = c.passed
                    /\ failed_steps' = c.failed
                    /\ skipped_steps' = c.skipped
                    /\ error_message' = NextErrorMessage(error_message, step_result)
                    /\ variables' = MergeExtracted(bound, step_result)
                    /\ results' = Append(results, step_result)
                    /\ events' = events \o
                          << StepStarted(row_id, index),
                             StepCompleted(row_id, index, step_result,
                                           Len(results) + 1, total_steps) >>
    /\ csv_index' = csv_index + 1
    /\ UNCHANGED perfVars
    /\ UNCHANGED unitVars
    /\ UNCHANGED <<steps, scenario_variables, base_url, csv_file, pc, enabled_steps,
                   total_steps, index, csv_records, run>>

\* executor.rs 229-231: all rows done, item and index are removed
EndCsvExpansion ==
    /\ pc = "rows"
    /\ csv_index = Len(Unwrap(csv_records))
    /\ variables' = RetractRow(variables)
    /\ csv_records' = None
    /\ csv_index' = 0
    /\ index' = index + 1
    /\ pc' = "loop"
    /\ UNCHANGED perfVars
    /\ UNCHANGED unitVars
    /\ UNCHANGED <<steps, scenario_variables, base_url, csv_file, enabled_steps,
                   total_steps, results, passed_steps, failed_steps, skipped_steps,
                   error_message, events, run>>

\* executor.rs 308-345: the run record and scenario-completed
FinishScenario ==
    /\ pc = "loop"
    /\ index = Len(enabled_steps)
    /\ LET record == [id |-> RunId,
                      status |-> RunStatus(failed_steps, passed_steps),
                      total_steps |-> RunTotalSteps(results, enabled_steps),
                      passed_steps |-> passed_steps, failed_steps |-> failed_steps,
                      skipped_steps |-> skipped_steps, error_message |-> error_message,
                      results |-> results, variables |-> variables]
       IN  /\ run' = Some(record)
           \* the event carries a clone of the record, kept in run alone
           /\ events' = Append(events, [event |-> "scenario-completed",
                                        run_id |-> RunId, status |-> record.status])
    /\ pc' = "done"
    /\ UNCHANGED perfVars
    /\ UNCHANGED unitVars
    /\ UNCHANGED <<steps, scenario_variables, base_url, csv_file, variables,
                   enabled_steps, total_steps, index, csv_records, csv_index, results,
                   passed_steps, failed_steps, skipped_steps, error_message>>

ScenarioNext ==
    \/ ExecuteScenarioStart
    \/ ExecuteStepOnce
    \/ BeginCsvExpansion
    \/ ExecuteCsvRow
    \/ EndCsvExpansion
    \/ FinishScenario


(* ===================== load mode: inputs and helpers =================== *)
\* at most this many requests are sent in one load run
MaxRequests == 2

\* at most this many iterations are begun by the VUs of one load run
MaxIterations == 2

\* An AtomicU32 holds 32 bits; the model keeps them as the two's complement
\* reading of the same bits, so u32::MAX is -1, and compares them unsigned.
\* AtomicU32::fetch_add(1): wrapping
U32Inc(a) == IF a = 2147483647 THEN (-2147483647) - 1 ELSE a + 1

\* AtomicU32::fetch_sub(1): wrapping
U32Dec(a) == IF a = (-2147483647) - 1 THEN 2147483647 ELSE a - 1

\* a < b on u32
U32Less(a, b) == IF (a < 0) = (b < 0) THEN a < b ELSE b < 0

PerfStepNames == {"login", "me", "condition"}

\* the step lists of a load run, as the commands load them from the
\* database: in ascending step_order
PerfStepLists ==
    UNION { { [i \in 1..n |->
                 [id |-> StepId(i), step_order |-> i,
                  step_type |-> Catalogue[names[i]].step_type, name |-> names[i],
                  config |-> Catalogue[names[i]].config, enabled |-> en[i]]] :
              names \in Injections(1..n, PerfStepNames), en \in [1..n -> BOOLEAN] } :
            n \in 0..MaxSteps }

\* what the server of a load run answers: no answer at all, or 200; the
\* time until the failure is measured like the time until the answer
PerfResponses ==
    { [ok |-> FALSE, duration_ms |-> 5] } \cup { r \in Responses : r.ok /\ r.status = 200 }

\* A threshold condition is kept as the lexemes the regular expressions of
\* metrics.rs tell apart: p(n), a word, a run of the characters < > = !, and
\* a decimal number num / den.
PctLex(n) == [lex |-> "p", n |-> n]
WordLex(w) == [lex |-> "word", w |-> w]
OpLex(op) == [lex |-> "op", op |-> op]
NumLex(n, d) == [lex |-> "num", num |-> n, den |-> d]

\* two thresholds: fewer than half of the requests failed, and a 95th
\* percentile of the durations below 500 ms
ErrorRateBelowHalf ==
    [metric |-> "http_req_failed", condition |-> <<WordLex("rate"), OpLex("<"), NumLex(1, 2)>>]
P95Below500 ==
    [metric |-> "http_req_duration", condition |-> <<PctLex(95), OpLex("<"), NumLex(500, 1)>>]

\* the load test configurations: two one-second stages of one VU, without a
\* cap on the iterations and without thresholds; or a ramp to four VUs in
\* two seconds, which has two VUs after one second, with a cap of one
\* iteration and the two thresholds
PerfConfigs ==
    { [stages |-> << [duration_secs |-> 1, target_vus |-> 1],
                     [duration_secs |-> 1, target_vus |-> 1] >>,
       iterations |-> None, thresholds |-> <<>>],
      [stages |-> << [duration_secs |-> 2, target_vus |-> 4] >>,
       iterations |-> Some(1), thresholds |-> <<ErrorRateBelowHalf, P95Below500>>] }

RECURSIVE SumDurations(_)
\* StageScheduler::new: total_duration_secs
SumDurations(stages) ==
    IF stages = <<>> THEN 0 ELSE Head(stages).duration_secs + SumDurations(Tail(stages))

\* StageScheduler::is_completed (stages.rs 47-49)
is_completed(stages, t) == t >= SumDurations(stages)

RoundDivUp(x, d) == (x + d) \div d

\* f64::round of x / d for x >= 0, d > 0
RoundDiv(x, d) == (2 * x + d) \div (2 * d)

RECURSIVE InterpolateFrom(_, _, _, _)
\* the loop of get_current_vus: stages left, the time they start at, the
\* previous target, the elapsed time
InterpolateFrom(stages, accumulated, prev_target_vus, t) ==
    IF stages = <<>> THEN prev_target_vus
    ELSE LET stage == Head(stages)
             stage_end == accumulated + stage.duration_secs
         IN  IF t < stage_end
             THEN RoundDiv(prev_target_vus * stage.duration_secs
                             + (stage.target_vus - prev_target_vus) * (t - accumulated),
                           stage.duration_secs)
             ELSE InterpolateFrom(Tail(stages), stage_end, stage.target_vus, t)

RECURSIVE TargetOfStageAt(_, _, _)
TargetOfStageAt(stages, accumulated, t) ==
    IF stages = <<>> THEN 0
    ELSE IF t < accumulated + Head(stages).duration_secs THEN Head(stages).target_vus
         ELSE TargetOfStageAt(Tail(stages), accumulated + Head(stages).duration_secs, t)
get_current_vusUnramped(stages, t) == TargetOfStageAt(stages, 0, t)

\* StageScheduler::get_current_vus (stages.rs 79-121)
get_current_vus(stages, t) ==
    IF stages = <<>> \/ t = 0 THEN 0 ELSE InterpolateFrom(stages, 0, 0, t)

RECURSIVE StageIndexFrom(_, _, _, _)
\* the loop of get_current_stage_index: stages left, the index of the first
\* of them, the time it starts at, the elapsed time
StageIndexFrom(stages, idx, accumulated, t) ==
    IF stages = <<>> THEN None
    ELSE IF t < accumulated + Head(stages).duration_secs THEN Some(idx)
         ELSE StageIndexFrom(Tail(stages), idx + 1,
                             accumulated + Head(stages).duration_secs, t)

\* StageScheduler::get_current_stage_index (stages.rs 52-69), 0-based
get_current_stage_index(stages, t) == StageIndexFrom(stages, 0, 0, t)

\* StageScheduler::get_current_stage (stages.rs 72-75)
get_current_stage(stages, t) ==
    LET i == get_current_stage_index(stages, t)
    IN  IF IsSome(i) /\ Unwrap(i) < Len(stages) THEN Some(stages[Unwrap(i) + 1]) ELSE None

check_stage_transitionAnew(stages, t, last_stage_index) ==
    get_current_stage_index(stages, t)

\* StageScheduler::check_stage_transition (stages.rs 144-151)
check_stage_transition(stages, t, last_stage_index) ==
    LET current == get_current_stage_index(stages, t)
    IN  IF IsNone(last_stage_index) /\ IsSome(current) THEN current
        ELSE IF IsSome(last_stage_index) /\ IsSome(current)
                /\ Unwrap(current) # Unwrap(last_stage_index) THEN current
        ELSE None

\* prepare_scenario_variables (performance/executor.rs 189-204)
prepare_scenario_variables(scenario_vars, base) ==
    MapInsert(IF scenario_vars.k = "obj" THEN scenario_vars.o ELSE EmptyMap,
              "baseUrl", JStr(IF IsSome(base) THEN Unwrap(base) ELSE DefaultBaseUrl))

\* performance/executor.rs 80-86
PerfEnabledSteps(list) == FilterEnabled(list)

\* resolve_url of the load mode (performance/executor.rs 651-663)
perf_resolve_url(url, base) ==
    IF StartsWith(url, "http://") \/ StartsWith(url, "https://") THEN url
    ELSE IF StartsWith(url, "/") /\ IsSome(base)
         THEN TrimEndMatches(Unwrap(base), "/") \o url
         ELSE url

\* extract_variable of the load mode (performance/executor.rs 666-676)
perf_extract_variable(extractor, body, status) ==
    CASE extractor.source = "status" -> Some(JNum(status))
      [] extractor.source = "body" -> extract_json_path(body, extractor.path)
      [] OTHER -> None

PerfExtractIntoNothing(local, extractors, http) == local

RECURSIVE PerfExtractInto(_, _, _)
\* performance/executor.rs 540-544
PerfExtractInto(local, extractors, http) ==
    IF extractors = <<>> THEN local
    ELSE LET v == perf_extract_variable(Head(extractors), http.body, http.status)
         IN  PerfExtractInto(IF IsSome(v) THEN MapInsert(local, Head(extractors).name, Unwrap(v))
                             ELSE local,
                             Tail(extractors), http)

\* the verb the request goes out with: GET for an unsupported method
PerfMethod(config) ==
    IF to_uppercase(config.method) \in SupportedMethods
    THEN to_uppercase(config.method) ELSE "GET"

\* the request execute_request_step builds (performance/executor.rs 495-523)
PerfRequest(step, local, base) ==
    [method |-> to_uppercase(step.config.method),
     verb |-> PerfMethod(step.config),
     url |-> perf_resolve_url(resolve_variables(step.config.url, local), base),
     headers |-> ResolveHeaders(step.config, local),
     body |-> ResolveBody(step.config, to_uppercase(step.config.method), local)]

\* the RequestMetric of a finished exchange (performance/executor.rs 529-576)
PerfMetric(step, request, http, vu_id, iteration) ==
    [step_id |-> step.id, step_name |-> step.name, method |-> request.method,
     url |-> request.url,
     status |-> IF http.ok THEN http.status ELSE 0,
     duration_ms |-> http.duration_ms,
     success |-> http.ok /\ http.status >= 200 /\ http.status < 300,
     vu_id |-> vu_id, iteration |-> iteration]

\* the RequestMetric of a config that does not decode: nothing is sent
PerfInvalidMetric(step, vu_id, iteration) ==
    [step_id |-> step.id, step_name |-> step.name, method |-> "UNKNOWN",
     url |-> <<>>, status |-> 0, duration_ms |-> 0, success |-> FALSE,
     vu_id |-> vu_id, iteration |-> iteration]

LimitReached == IsSome(perf_config.iterations)
                /\ iteration_counter >= Unwrap(perf_config.iterations)

RECURSIVE IterationsBegun(_)
\* the iterations the VUs have begun so far
IterationsBegun(workers) ==
    IF workers = <<>> THEN 0 ELSE Head(workers).iteration + IterationsBegun(Tail(workers))

InFlight == { w \in DOMAIN vus : vus[w].pc = "inflight" }

\* the VUs that are past the stop check at the head of their loop and have
\* not begun the iteration yet
AtLimitCheck == { w \in DOMAIN vus : vus[w].pc = "limit" }

\* the VUs that are past the stop check of a request step: about to send,
\* or waiting for the response
Committed == { w \in DOMAIN vus : vus[w].pc \in {"committed", "inflight"} }

(* ------------- the metrics collector (performance/metrics.rs) ---------- *)
\* An f64 the collector computes is kept as the quotient it is computed
\* from, num / den with den > 0.
Rat(n, d) == [num |-> n, den |-> d]
RatLess(a, b) == a.num * b.den < b.num * a.den
RatEq(a, b) == a.num * b.den = b.num * a.den

RECURSIVE InsertDuration(_, _)
InsertDuration(sorted, x) ==
    IF sorted = <<>> THEN <<x>>
    ELSE IF Head(sorted) <= x THEN <<Head(sorted)>> \o InsertDuration(Tail(sorted), x)
         ELSE <<x>> \o sorted

RecordedDurations(ms) == [i \in DOMAIN ms |-> ms[i].duration_ms]

RECURSIVE SortedDurations(_)
\* the durations of the metrics, sorted (metrics.rs 102-103)
SortedDurations(ms) ==
    IF ms = <<>> THEN <<>>
    ELSE InsertDuration(SortedDurations(Tail(ms)), Head(ms).duration_ms)

RECURSIVE SumSeq(_)
SumSeq(s) == IF s = <<>> THEN 0 ELSE Head(s) + SumSeq(Tail(s))

percentileTruncated(sorted_data, p) ==
    IF sorted_data = <<>> THEN 0
    ELSE sorted_data[(p * (Len(sorted_data) - 1)) \div 100 + 1]

\* percentile (metrics.rs 220-228): the element at round(p / 100 * (n - 1))
percentile(sorted_data, p) ==
    IF sorted_data = <<>> THEN 0
    ELSE LET rounded == RoundDiv(p * (Len(sorted_data) - 1), 100)
             at == IF rounded < Len(sorted_data) - 1 THEN rounded
                   ELSE Len(sorted_data) - 1
         IN  sorted_data[at + 1]

\* MetricsCollector::record (metrics.rs 23-30) keeps, for every vu_id, the
\* greatest iteration number of its metrics
VuIterations(ms, vu_id) ==
    LET its == { ms[i].iteration : i \in { j \in DOMAIN ms : ms[j].vu_id = vu_id } }
    IN  IF its = {} THEN 0 ELSE CHOOSE x \in its : \A y \in its : y <= x

RECURSIVE SumIterations(_, _)
SumIterations(ms, ids) ==
    IF ids = {} THEN 0
    ELSE LET v == CHOOSE x \in ids : TRUE
         IN  VuIterations(ms, v) + SumIterations(ms, ids \ {v})

\* MetricsCollector::get_total_iterations (metrics.rs 33-35)
get_total_iterations(ms) == SumIterations(ms, { ms[i].vu_id : i \in DOMAIN ms })

FailedCount(ms) == Cardinality({ i \in DOMAIN ms : ~ms[i].success })

\* the metrics of one step, in the order they were recorded (metrics.rs 155-160)
StepGroup(ms, step_id) == SelectSeq(ms, LAMBDA m : m.step_id = step_id)

\* MetricsCollector::calculate_step_metrics (metrics.rs 151-203): the figures
\* of every step that has a metric, by step id
calculate_step_metrics(ms) ==
    [step_id \in { ms[i].step_id : i \in DOMAIN ms } |->
        LET group == StepGroup(ms, step_id)
            durations == SortedDurations(group)
        IN  [step_name |-> group[1].step_name,
             total_requests |-> Len(group),
             failed_requests |-> FailedCount(group),
             error_rate |-> Rat(FailedCount(group), Len(group)),
             duration_min |-> durations[1],
             duration_max |-> durations[Len(durations)],
             duration_avg |-> Rat(SumSeq(durations), Len(durations)),
             duration_med |-> percentile(durations, 50),
             duration_p90 |-> percentile(durations, 90),
             duration_p95 |-> percentile(durations, 95),
             duration_p99 |-> percentile(durations, 99)]]

\* MetricsCollector::calculate_aggregates (metrics.rs 89-148) at the time
\* total_duration_ms after the collector's start
calculate_aggregates(ms, total_duration_ms) ==
    IF ms = <<>>
    THEN [total_requests |-> 0, failed_requests |-> 0, error_rate |-> Rat(0, 1),
          duration_min |-> 0, duration_max |-> 0, duration_avg |-> Rat(0, 1),
          duration_med |-> 0, duration_p90 |-> 0, duration_p95 |-> 0,
          duration_p99 |-> 0, requests_per_second |-> Rat(0, 1),
          iterations_completed |-> 0, total_duration_ms |-> 0,
          step_metrics |-> EmptyMap]
    ELSE LET durations == SortedDurations(ms) IN
         [total_requests |-> Len(ms),
          failed_requests |-> FailedCount(ms),
          error_rate |-> Rat(FailedCount(ms), Len(ms)),
          duration_min |-> durations[1],
          duration_max |-> durations[Len(durations)],
          duration_avg |-> Rat(SumSeq(durations), Len(durations)),
          duration_med |-> percentile(durations, 50),
          duration_p90 |-> percentile(durations, 90),
          duration_p95 |-> percentile(durations, 95),
          duration_p99 |-> percentile(durations, 99),
          requests_per_second |->
              IF total_duration_ms > 0 THEN Rat(Len(ms) * 1000, total_duration_ms)
              ELSE Rat(0, 1),
          iterations_completed |-> get_total_iterations(ms),
          total_duration_ms |-> total_duration_ms,
          step_metrics |-> calculate_step_metrics(ms)]

Least(S) == CHOOSE x \in S : \A y \in S : x <= y

\* where "op number" stands in the condition, after a lexeme of kind `lead`
\* when one is asked for
OpNumberAt(cond) ==
    { i \in 1..(Len(cond) - 1) : cond[i].lex = "op" /\ cond[i + 1].lex = "num" }
LedOpNumberAt(cond, lead) ==
    { i \in OpNumberAt(cond) : i > 1 /\ cond[i - 1].lex = lead }

\* compare_values of metrics.rs (351-361)
perf_compare_values(actual, op, expected) ==
    CASE op = "<" -> RatLess(actual, expected)
      [] op = "<=" -> ~RatLess(expected, actual)
      [] op = ">" -> RatLess(expected, actual)
      [] op = ">=" -> ~RatLess(actual, expected)
      [] op \in {"==", "="} -> RatEq(actual, expected)
      [] op = "!=" -> ~RatEq(actual, expected)
      [] OTHER -> FALSE

\* parse_numeric_condition (metrics.rs 336-348)
parse_numeric_condition(cond, actual) ==
    IF OpNumberAt(cond) # {}
    THEN LET i == Least(OpNumberAt(cond))
         IN  perf_compare_values(actual, cond[i].op, Rat(cond[i + 1].num, cond[i + 1].den))
    ELSE FALSE

\* parse_duration_condition (metrics.rs 271-315); p(n) is compared with the
\* whole part of the number only, as (\d+) captures it
parse_duration_condition(cond, m) ==
    LET pct == LedOpNumberAt(cond, "p")
        stat == { i \in LedOpNumberAt(cond, "word") :
                    cond[i - 1].w \in {"avg", "max", "min", "med"} }
    IN  IF pct # {}
        THEN LET i == Least(pct)
                 p == cond[i - 1].n
                 actual == CASE p = 50 -> m.duration_med
                             [] p = 90 -> m.duration_p90
                             [] p = 95 -> m.duration_p95
                             [] p = 99 -> m.duration_p99
                             [] OTHER -> m.duration_p95
             IN  [actual_value |-> Rat(actual, 1),
                  passed |-> perf_compare_values(Rat(actual, 1), cond[i].op,
                                 Rat(cond[i + 1].num \div cond[i + 1].den, 1))]
        ELSE IF stat # {}
        THEN LET i == Least(stat)
                 w == cond[i - 1].w
                 actual == CASE w = "avg" -> m.duration_avg
                             [] w = "max" -> Rat(m.duration_max, 1)
                             [] w = "min" -> Rat(m.duration_min, 1)
                             [] w = "med" -> Rat(m.duration_med, 1)
             IN  [actual_value |-> actual,
                  passed |-> perf_compare_values(actual, cond[i].op,
                                 Rat(cond[i + 1].num, cond[i + 1].den))]
        ELSE [actual_value |-> m.duration_avg,
              passed |-> parse_numeric_condition(cond, m.duration_avg)]

\* parse_error_rate_condition (metrics.rs 318-333)
parse_error_rate_condition(cond, m) ==
    [actual_value |-> m.error_rate,
     passed |-> parse_numeric_condition(cond, m.error_rate)]

\* evaluate_single_threshold (metrics.rs 231-268); the message is left out
evaluate_single_threshold(threshold, m) ==
    LET r == CASE threshold.metric \in {"http_req_duration", "duration"} ->
                     parse_duration_condition(threshold.condition, m)
               [] threshold.metric \in {"http_req_failed", "error_rate", "errors"} ->
                     parse_error_rate_condition(threshold.condition, m)
               [] threshold.metric = "iterations" ->
                     [actual_value |-> Rat(m.iterations_completed, 1),
                      passed |-> parse_numeric_condition(threshold.condition,
                                     Rat(m.iterations_completed, 1))]
               [] threshold.metric \in {"rps", "requests_per_second"} ->
                     [actual_value |-> m.requests_per_second,
                      passed |-> parse_numeric_condition(threshold.condition,
                                     m.requests_per_second)]
               [] OTHER -> [actual_value |-> Rat(0, 1), passed |-> FALSE]
    IN  [threshold |-> threshold, passed |-> r.passed, actual_value |-> r.actual_value]

\* MetricsCollector::evaluate_thresholds (metrics.rs 206-216): the
\* aggregates are computed anew, then each threshold is evaluated
evaluate_thresholds(thresholds, ms, total_duration_ms) ==
    [i \in DOMAIN thresholds |->
        evaluate_single_threshold(thresholds[i], calculate_aggregates(ms, total_duration_ms))]

PerfRunStatusAnyPassed(threshold_results) ==
    IF \E i \in DOMAIN threshold_results : threshold_results[i].passed
    THEN "passed" ELSE "failed"

\* run(), performance/executor.rs 127-133
PerfRunStatus(threshold_results) ==
    IF \A i \in DOMAIN threshold_results : threshold_results[i].passed
    THEN "passed" ELSE "failed"

(* ====================== load mode: the operations ====================== *)
PerfIdle ==
    /\ perf_pc = "idle"
    /\ perf_steps = <<>>
    /\ perf_config = [stages |-> <<>>, iterations |-> None, thresholds |-> <<>>]
    /\ perf_enabled = <<>>
    /\ elapsed = 0
    /\ stop_signal = FALSE
    /\ current_vus = 0
    /\ max_vus_reached = 0
    /\ iteration_counter = 0
    /\ manager = [pc |-> "idle", to_spawn |-> 0, next_vu_id |-> 0]
    /\ vus = <<>>
    /\ metrics = <<>>
    /\ reporter = [pc |-> "idle", last_stage_index |-> None]
    /\ perf_events = <<>>
    /\ final_metrics = None
    /\ perf_run = None

ScenarioIdle ==
    /\ steps = <<>>
    /\ scenario_variables = ScenarioVariables
    /\ base_url \in ProjectBaseUrls
    /\ csv_file = None
    /\ pc = "idle"
    /\ variables = EmptyMap
    /\ enabled_steps = <<>>
    /\ total_steps = 0
    /\ index = 0
    /\ csv_records = None
    /\ csv_index = 0
    /\ results = <<>>
    /\ passed_steps = 0
    /\ failed_steps = 0
    /\ skipped_steps = 0
    /\ error_message = None
    /\ events = <<>>
    /\ run = None

PerfInit ==
    /\ perf_pc = "ready"
    /\ perf_steps \in PerfStepLists
    /\ perf_config \in PerfConfigs
    /\ perf_enabled = <<>>
    /\ elapsed = 0
    /\ stop_signal = FALSE
    /\ current_vus = 0
    /\ max_vus_reached = 0
    /\ iteration_counter = 0
    /\ manager = [pc |-> "idle", to_spawn |-> 0, next_vu_id |-> 0]
    /\ vus = <<>>
    /\ metrics = <<>>
    /\ reporter = [pc |-> "idle", last_stage_index |-> None]
    /\ perf_events = <<>>
    /\ final_metrics = None
    /\ perf_run = None

PerfStarted == [event |-> "perf-started", run_id |-> RunId]

PerfStageChanged(stage_index, stage) ==
    [event |-> "perf-stage-changed", run_id |-> RunId, stage_index |-> stage_index,
     target_vus |-> stage.target_vus, duration_secs |-> stage.duration_secs]

\* the event carries a clone of the run record, kept in perf_run alone
PerfCompleted(record) ==
    [event |-> "perf-completed", run_id |-> RunId, status |-> record.status]

\* run(), performance/executor.rs 42-110: perf-started, shared state, the
\* filter of the enabled steps, the reporter and the manager task
PerfRunStart ==
    /\ perf_pc = "ready"
    /\ perf_events' = Append(perf_events, PerfStarted)
    /\ perf_enabled' = PerfEnabledSteps(perf_steps)
    /\ reporter' = [reporter EXCEPT !.pc = "loop"]
    /\ manager' = [manager EXCEPT !.pc = "loop"]
    /\ perf_pc' = "running"
    /\ UNCHANGED <<perf_steps, perf_config, elapsed, stop_signal, current_vus,
                   max_vus_reached, iteration_counter, vus, metrics,
                   final_metrics, perf_run>>
    /\ UNCHANGED scenarioVars
    /\ UNCHANGED unitVars

\* one pass of the reporter loop (performance/executor.rs 216-263), at any
\* time relative to the other tasks.  The perf-progress event of the pass
\* is sent but not kept.
ReporterTick ==
    /\ reporter.pc = "loop"
    /\ IF stop_signal \/ is_completed(perf_config.stages, elapsed)
       THEN /\ reporter' = [reporter EXCEPT !.pc = "exited"]
            /\ UNCHANGED perf_events
       ELSE LET new_stage_idx == check_stage_transition(perf_config.stages, elapsed,
                                                        reporter.last_stage_index)
                stage == get_current_stage(perf_config.stages, elapsed)
            IN  /\ reporter' = [reporter EXCEPT
                                  !.last_stage_index =
                                      IF IsSome(new_stage_idx) THEN new_stage_idx ELSE @]
                /\ perf_events' =
                      IF IsSome(new_stage_idx) /\ IsSome(stage)
                      THEN Append(perf_events,
                                  PerfStageChanged(Unwrap(new_stage_idx), Unwrap(stage)))
                      ELSE perf_events
    /\ UNCHANGED <<perf_pc, perf_steps, perf_config, perf_enabled, elapsed, stop_signal,
                   current_vus, max_vus_reached, iteration_counter, manager, vus, metrics,
                   final_metrics, perf_run>>
    /\ UNCHANGED scenarioVars
    /\ UNCHANGED unitVars

\* the scheduler's clock moves on by a second
AdvanceTime ==
    /\ perf_pc \in {"running", "aggregated"}
    /\ ~is_completed(perf_config.stages, elapsed)
    /\ elapsed' = elapsed + 1
    /\ UNCHANGED <<perf_pc, perf_steps, perf_config, perf_enabled, stop_signal,
                   current_vus, max_vus_reached, iteration_counter, manager, vus, metrics>>
    /\ UNCHANGED reportVars
    /\ UNCHANGED scenarioVars
    /\ UNCHANGED unitVars

LeaveManagerLoopOnStopOnly(stop, completed, limit) == stop

\* performance/executor.rs 295-310: what ends the manager loop
LeaveManagerLoop(stop, completed, limit) == stop \/ completed \/ limit

\* one pass of the manager loop (performance/executor.rs 292-352): leave
\* the loop and set stop, or compare the target with current_vus
ManagerTick ==
    /\ perf_pc = "running"
    /\ manager.pc = "loop"
    /\ IF LeaveManagerLoop(stop_signal, is_completed(perf_config.stages, elapsed),
                           LimitReached)
       THEN /\ stop_signal' = TRUE
            /\ manager' = [manager EXCEPT !.pc = "joining"]
            /\ UNCHANGED max_vus_reached
       ELSE LET target_vus == get_current_vus(perf_config.stages, elapsed)
                active_vus == current_vus
            IN  /\ max_vus_reached' = IF U32Less(max_vus_reached, active_vus)
                                      THEN active_vus ELSE max_vus_reached
                /\ manager' = IF U32Less(active_vus, target_vus)
                              THEN [manager EXCEPT !.pc = "spawning",
                                                   !.to_spawn = target_vus - active_vus]
                              ELSE manager
                /\ UNCHANGED stop_signal
    /\ UNCHANGED <<perf_pc, perf_steps, perf_config, perf_enabled, elapsed,
                   current_vus, iteration_counter, vus, metrics>>
    /\ UNCHANGED reportVars
    /\ UNCHANGED scenarioVars
    /\ UNCHANGED unitVars

\* performance/executor.rs 325-342, 381-391: spawn_vu
ManagerSpawn ==
    /\ manager.pc = "spawning"
    /\ vus' = Append(vus, [pc |-> "head", pos |-> 0, iteration |-> 0,
                           local_vars |-> prepare_scenario_variables(scenario_variables, base_url),
                           request |-> None])
    /\ manager' = [manager EXCEPT !.pc = "counting", !.next_vu_id = @ + 1]
    /\ UNCHANGED <<perf_pc, perf_steps, perf_config, perf_enabled, elapsed, stop_signal,
                   current_vus, max_vus_reached, iteration_counter, metrics>>
    /\ UNCHANGED reportVars
    /\ UNCHANGED scenarioVars
    /\ UNCHANGED unitVars

\* performance/executor.rs 343: current_vus.fetch_add(1)
ManagerCount ==
    /\ manager.pc = "counting"
    /\ current_vus' = U32Inc(current_vus)
    /\ manager' = [manager EXCEPT !.to_spawn = @ - 1,
                                  !.pc = IF manager.to_spawn > 1 THEN "spawning" ELSE "loop"]
    /\ UNCHANGED <<perf_pc, perf_steps, perf_config, perf_enabled, elapsed, stop_signal,
                   max_vus_reached, iteration_counter, vus, metrics>>
    /\ UNCHANGED reportVars
    /\ UNCHANGED scenarioVars
    /\ UNCHANGED unitVars

\* performance/executor.rs 354-360: every VU task has ended
ManagerJoin ==
    /\ manager.pc = "joining"
    /\ \A w \in DOMAIN vus : vus[w].pc = "exited"
    /\ manager' = [manager EXCEPT !.pc = "done"]
    /\ UNCHANGED <<perf_pc, perf_steps, perf_config, perf_enabled, elapsed, stop_signal,
                   current_vus, max_vus_reached, iteration_counter, vus, metrics>>
    /\ UNCHANGED reportVars
    /\ UNCHANGED scenarioVars
    /\ UNCHANGED unitVars

\* performance/executor.rs 355-360: the 10 s wait expires while a request,
\* which may take up to 30 s, is still in flight
ManagerJoinTimeout ==
    /\ manager.pc = "joining"
    /\ InFlight # {}
    /\ manager' = [manager EXCEPT !.pc = "done"]
    /\ UNCHANGED <<perf_pc, perf_steps, perf_config, perf_enabled, elapsed, stop_signal,
                   current_vus, max_vus_reached, iteration_counter, vus, metrics>>
    /\ UNCHANGED reportVars
    /\ UNCHANGED scenarioVars
    /\ UNCHANGED unitVars

WorkerHeadRetiring(w) ==
    /\ vus[w].pc = "head"
    /\ IF stop_signal \/ U32Less(get_current_vus(perf_config.stages, elapsed), current_vus)
       THEN /\ vus' = [vus EXCEPT ![w].pc = "exited"]
            /\ current_vus' = U32Dec(current_vus)
       ELSE /\ IterationsBegun(vus) + Cardinality(AtLimitCheck) < MaxIterations
            /\ vus' = [vus EXCEPT ![w].pc = "limit"]
            /\ UNCHANGED current_vus
    /\ UNCHANGED <<perf_pc, perf_steps, perf_config, perf_enabled, elapsed, stop_signal,
                   max_vus_reached, iteration_counter, manager, metrics>>
    /\ UNCHANGED reportVars
    /\ UNCHANGED scenarioVars
    /\ UNCHANGED unitVars

\* performance/executor.rs 393-397, 458-459: the head of the VU loop reads
\* the stop flag
WorkerHead(w) ==
    /\ vus[w].pc = "head"
    /\ IF stop_signal
       THEN /\ vus' = [vus EXCEPT ![w].pc = "exited"]
            /\ current_vus' = U32Dec(current_vus)
       ELSE /\ IterationsBegun(vus) + Cardinality(AtLimitCheck) < MaxIterations
            /\ vus' = [vus EXCEPT ![w].pc = "limit"]
            /\ UNCHANGED current_vus
    /\ UNCHANGED <<perf_pc, perf_steps, perf_config, perf_enabled, elapsed, stop_signal,
                   max_vus_reached, iteration_counter, manager, metrics>>
    /\ UNCHANGED reportVars
    /\ UNCHANGED scenarioVars
    /\ UNCHANGED unitVars

\* performance/executor.rs 399-406, 458-459: stop was read unset; the VU
\* reads the iteration counter and begins an iteration, whatever happens to
\* the flag from here on
WorkerBegin(w) ==
    /\ vus[w].pc = "limit"
    /\ IF LimitReached
       THEN /\ vus' = [vus EXCEPT ![w].pc = "exited"]
            /\ current_vus' = U32Dec(current_vus)
       ELSE /\ vus' = [vus EXCEPT ![w].pc = "steps", ![w].pos = 1,
                                  ![w].iteration = @ + 1]
            /\ UNCHANGED current_vus
    /\ UNCHANGED <<perf_pc, perf_steps, perf_config, perf_enabled, elapsed, stop_signal,
                   max_vus_reached, iteration_counter, manager, metrics>>
    /\ UNCHANGED reportVars
    /\ UNCHANGED scenarioVars
    /\ UNCHANGED unitVars

\* performance/executor.rs 409-417, 451-455: the step loop ends (all steps
\* done, or stop seen) and the iteration is counted
WorkerIterationEnd(w) ==
    /\ vus[w].pc = "steps"
    /\ vus[w].pos > Len(perf_enabled) \/ stop_signal
    /\ iteration_counter' = iteration_counter + 1
    /\ vus' = [vus EXCEPT ![w].pc = "head"]
    /\ UNCHANGED <<perf_pc, perf_steps, perf_config, perf_enabled, elapsed, stop_signal,
                   current_vus, max_vus_reached, manager, metrics>>
    /\ UNCHANGED reportVars
    /\ UNCHANGED scenarioVars
    /\ UNCHANGED unitVars

\* performance/executor.rs 414-417: a step that is no request is passed over
WorkerSkip(w) ==
    /\ vus[w].pc = "steps"
    /\ vus[w].pos <= Len(perf_enabled) /\ ~stop_signal
    /\ perf_enabled[vus[w].pos].step_type # "request"
    /\ vus' = [vus EXCEPT ![w].pos = @ + 1]
    /\ UNCHANGED <<perf_pc, perf_steps, perf_config, perf_enabled, elapsed, stop_signal,
                   current_vus, max_vus_reached, iteration_counter, manager, metrics>>
    /\ UNCHANGED reportVars
    /\ UNCHANGED scenarioVars
    /\ UNCHANGED unitVars

WorkerCommitUnchecked(w) ==
    /\ vus[w].pc = "steps"
    /\ vus[w].pos <= Len(perf_enabled)
    /\ LET step == perf_enabled[vus[w].pos] IN
        /\ step.step_type = "request"
        /\ step.config.valid => Len(metrics) + Cardinality(Committed) < MaxRequests
    /\ vus' = [vus EXCEPT ![w].pc = "committed"]
    /\ UNCHANGED <<perf_pc, perf_steps, perf_config, perf_enabled, elapsed, stop_signal,
                   current_vus, max_vus_reached, iteration_counter, manager, metrics>>
    /\ UNCHANGED reportVars
    /\ UNCHANGED scenarioVars
    /\ UNCHANGED unitVars

\* performance/executor.rs 410-417: stop was read unset and the step is a
\* request: the VU goes on to execute_request_step, whatever happens to the
\* flag from here on
WorkerCommit(w) ==
    /\ vus[w].pc = "steps"
    /\ vus[w].pos <= Len(perf_enabled) /\ ~stop_signal
    /\ LET step == perf_enabled[vus[w].pos] IN
        /\ step.step_type = "request"
        /\ step.config.valid => Len(metrics) + Cardinality(Committed) < MaxRequests
    /\ vus' = [vus EXCEPT ![w].pc = "committed"]
    /\ UNCHANGED <<perf_pc, perf_steps, perf_config, perf_enabled, elapsed, stop_signal,
                   current_vus, max_vus_reached, iteration_counter, manager, metrics>>
    /\ UNCHANGED reportVars
    /\ UNCHANGED scenarioVars
    /\ UNCHANGED unitVars

\* performance/executor.rs 419-427, 476-526: the request is built and sent;
\* a config that does not decode gives its metric at once
WorkerSend(w) ==
    /\ vus[w].pc = "committed"
    /\ LET step == perf_enabled[vus[w].pos] IN
        IF step.config.valid
        THEN /\ vus' = [vus EXCEPT ![w].pc = "inflight",
                           ![w].request = Some(PerfRequest(step, vus[w].local_vars, base_url))]
             /\ UNCHANGED metrics
        ELSE /\ metrics' = Append(metrics, PerfInvalidMetric(step, w - 1, vus[w].iteration))
             /\ vus' = [vus EXCEPT ![w].pc = "steps", ![w].pos = @ + 1]
    /\ UNCHANGED <<perf_pc, perf_steps, perf_config, perf_enabled, elapsed, stop_signal,
                   current_vus, max_vus_reached, iteration_counter, manager>>
    /\ UNCHANGED reportVars
    /\ UNCHANGED scenarioVars
    /\ UNCHANGED unitVars

\* performance/executor.rs 526-576, 429-448: the exchange ends, variables
\* are extracted into the VU's own map, the metric is recorded
WorkerComplete(w) ==
    /\ vus[w].pc = "inflight"
    /\ LET step == perf_enabled[vus[w].pos] IN
       \E http \in PerfResponses :
        /\ metrics' = Append(metrics, PerfMetric(step, Unwrap(vus[w].request), http,
                                                 w - 1, vus[w].iteration))
        /\ vus' = [vus EXCEPT
                     ![w].pc = "steps", ![w].pos = @ + 1, ![w].request = None,
                     ![w].local_vars =
                        IF http.ok /\ IsSome(step.config.extract_variables)
                        THEN PerfExtractInto(@, Unwrap(step.config.extract_variables), http)
                        ELSE @]
    /\ UNCHANGED <<perf_pc, perf_steps, perf_config, perf_enabled, elapsed, stop_signal,
                   current_vus, max_vus_reached, iteration_counter, manager>>
    /\ UNCHANGED reportVars
    /\ UNCHANGED scenarioVars
    /\ UNCHANGED unitVars

\* the collector's clock, read in milliseconds; it started with the
\* scheduler's, which the model keeps in whole seconds
get_elapsed_ms == elapsed * 1000

\* run(), performance/executor.rs 113-119: both tasks have ended, the final
\* aggregates are computed under the collector's lock
PerfAggregate ==
    /\ perf_pc = "running"
    /\ manager.pc = "done"
    /\ reporter.pc = "exited"
    /\ final_metrics' = Some(calculate_aggregates(metrics, get_elapsed_ms))
    /\ perf_pc' = "aggregated"
    /\ UNCHANGED <<perf_steps, perf_config, perf_enabled, elapsed, stop_signal,
                   current_vus, max_vus_reached, iteration_counter, manager, vus, metrics,
                   reporter, perf_events, perf_run>>
    /\ UNCHANGED scenarioVars
    /\ UNCHANGED unitVars

\* run(), performance/executor.rs 121-171: the thresholds are evaluated
\* under the lock taken anew, the run record is built, perf-completed is sent
PerfFinish ==
    /\ perf_pc = "aggregated"
    /\ perf_pc' = "done"
    /\ LET threshold_results ==
               evaluate_thresholds(perf_config.thresholds, metrics, get_elapsed_ms)
           record == [id |-> RunId,
                      status |-> PerfRunStatus(threshold_results),
                      max_vus_reached |-> max_vus_reached,
                      metrics |-> final_metrics,
                      threshold_results |-> threshold_results,
                      error_message |-> None]
       IN  /\ perf_run' = Some(record)
           /\ perf_events' = Append(perf_events, PerfCompleted(record))
    /\ UNCHANGED <<perf_steps, perf_config, perf_enabled, elapsed, stop_signal,
                   current_vus, max_vus_reached, iteration_counter, manager, vus, metrics,
                   reporter, final_metrics>>
    /\ UNCHANGED scenarioVars
    /\ UNCHANGED unitVars

PerfNext ==
    \/ PerfRunStart
    \/ AdvanceTime
    \/ ReporterTick
    \/ ManagerTick
    \/ ManagerSpawn
    \/ ManagerCount
    \/ ManagerJoin
    \/ ManagerJoinTimeout
    \/ PerfAggregate
    \/ PerfFinish
    \/ \E w \in DOMAIN vus : WorkerHead(w)
    \/ \E w \in DOMAIN vus : WorkerBegin(w)
    \/ \E w \in DOMAIN vus : WorkerIterationEnd(w)
    \/ \E w \in DOMAIN vus : WorkerSkip(w)
    \/ \E w \in DOMAIN vus : WorkerCommit(w)
    \/ \E w \in DOMAIN vus : WorkerSend(w)
    \/ \E w \in DOMAIN vus : WorkerComplete(w)

\* a step of the VU task w
Worker(w) ==
    /\ w \in DOMAIN vus
    /\ \/ WorkerHead(w)
       \/ WorkerBegin(w)
       \/ WorkerIterationEnd(w)
       \/ WorkerSkip(w)
       \/ WorkerCommit(w)
       \/ WorkerSend(w)
       \/ WorkerComplete(w)

\* the VU tasks a run can spawn: as many as the stages ever ask for
WorkerIds ==
    1 .. Least({ n \in 0..100 :
                   \A c \in PerfConfigs : \A t \in 0..100 :
                       is_completed(c.stages, t) \/ get_current_vus(c.stages, t) <= n })

(* ========================== the specifications ========================= *)
(* ==================== the stage scheduler on its own =================== *)
\* longest stage list of a scheduler
MaxStages == 3
\* most polls of check_stage_transition within one second
MaxPolls == 2

\* the stages the lists are made of: none, one or two seconds long, down to
\* no VU or up to three
StageDurations == {0, 1, 2}
StageTargets == {0, 3}
StageKinds ==
    { [duration_secs |-> d, target_vus |-> v] : d \in StageDurations, v \in StageTargets }

\* the stages of the documentation's example: up to 10 VUs in 10 s, 10 s at
\* 10 VUs, down to none in 10 s
ExampleStages ==
    << [duration_secs |-> 10, target_vus |-> 10],
       [duration_secs |-> 10, target_vus |-> 10],
       [duration_secs |-> 10, target_vus |-> 0] >>

StageLists ==
    UNION { [1..n -> StageKinds] : n \in 0..MaxStages } \cup {ExampleStages}

\* StageScheduler::new (stages.rs 19-27) at start_time, read at once, and a
\* poller that has received no index yet
SchedulerOf(stages) ==
    [stages |-> stages,
     elapsed |-> 0,                          \* start_time.elapsed().as_secs()
     vus |-> get_current_vus(stages, 0),     \* get_current_vus() now
     vus_before |-> None,                    \* and a second ago
     last_stage_index |-> None,              \* the index the poller received last
     polls |-> 0,                            \* polls within this second
     poll |-> None,                          \* the latest poll
     reported |-> <<>>,                      \* the indices the polls returned
     observed |-> {}]                        \* the indices active at a poll

\* no scheduler is under observation
SchedulerIdle == scheduler = SchedulerOf(<<>>)

SchedulerInit == \E stages \in StageLists : scheduler = SchedulerOf(stages)

\* a second passes, up to one second after the last stage; get_current_vus
\* is read again
SchedulerTick ==
    /\ scheduler.elapsed <= SumDurations(scheduler.stages)
    /\ scheduler' = [scheduler EXCEPT
                       !.elapsed = @ + 1,
                       !.vus_before = Some(scheduler.vus),
                       !.vus = get_current_vus(scheduler.stages, scheduler.elapsed + 1),
                       !.polls = 0]
    /\ UNCHANGED <<scenarioVars, perfVars, collector, call, database>>

\* the poller calls check_stage_transition with the index it received last,
\* and keeps the index it is given (performance/executor.rs 232-234)
SchedulerPoll ==
    /\ scheduler.polls < MaxPolls
    /\ LET current == get_current_stage_index(scheduler.stages, scheduler.elapsed)
           got == check_stage_transition(scheduler.stages, scheduler.elapsed,
                                         scheduler.last_stage_index)
       IN  scheduler' = [scheduler EXCEPT
                           !.polls = @ + 1,
                           !.poll = Some([elapsed |-> scheduler.elapsed,
                                          last_stage_index |-> scheduler.last_stage_index,
                                          current |-> current, got |-> got]),
                           !.last_stage_index = IF IsSome(got) THEN got ELSE @,
                           !.reported = IF IsSome(got) THEN Append(@, Unwrap(got)) ELSE @,
                           !.observed = IF IsSome(current) THEN @ \cup {Unwrap(current)} ELSE @]
    /\ UNCHANGED <<scenarioVars, perfVars, collector, call, database>>

SchedulerNext == SchedulerTick \/ SchedulerPoll

(* =================== the metrics collector on its own ================== *)
\* most metrics of a drawn collector
MaxSamples == 3
\* most calls made on one collector
MaxCalls == 2
\* last reading of the collector's clock, in ms since start_time
MaxClock == 1

SampleSteps == {"login", "me"}
SampleDurations == {10, 30}
\* the RequestMetrics a collector is filled with: either step, fast or slow,
\* succeeded or not, all of one VU's first iteration
SampleKinds ==
    { [step_id |-> st, step_name |-> st, method |-> "GET", url |-> <<>>,
       status |-> IF ok THEN 200 ELSE 500, duration_ms |-> d, success |-> ok,
       vu_id |-> 1, iteration |-> 1] :
        st \in SampleSteps, d \in SampleDurations, ok \in BOOLEAN }

\* the data of tests::test_percentile (metrics.rs 369): 1, 2, ..., 10
TenDurations == [i \in 1..10 |-> i]
TenSamples ==
    [i \in 1..10 |->
        [step_id |-> "login", step_name |-> "login", method |-> "GET", url |-> <<>>,
         status |-> 200, duration_ms |-> TenDurations[i], success |-> TRUE,
         vu_id |-> 1, iteration |-> 1]]

SampleLists ==
    UNION { [1..n -> SampleKinds] : n \in 0..MaxSamples } \cup {TenSamples}

\* the percentiles calculate_aggregates asks for (metrics.rs 111-114)
AskedPercentiles == {50, 90, 95, 99}

\* threshold lists handed to evaluate_thresholds: on the durations, on the
\* other metrics, and none
DurationThresholds ==
    << [metric |-> "http_req_duration",
        condition |-> <<PctLex(95), OpLex("<"), NumLex(25, 1)>>],
       [metric |-> "http_req_duration",
        condition |-> <<PctLex(75), OpLex("<"), NumLex(9, 1)>>],
       [metric |-> "duration",
        condition |-> <<PctLex(90), OpLex("<"), NumLex(19, 2)>>],
       [metric |-> "http_req_duration",
        condition |-> <<PctLex(50), OpLex(">="), NumLex(6, 1)>>],
       [metric |-> "http_req_duration",
        condition |-> <<WordLex("avg"), OpLex("<="), NumLex(20, 1)>>],
       [metric |-> "http_req_duration",
        condition |-> <<WordLex("max"), OpLex("!="), NumLex(30, 1)>>],
       [metric |-> "http_req_duration",
        condition |-> <<WordLex("min"), OpLex("=="), NumLex(10, 1)>>],
       [metric |-> "http_req_duration",
        condition |-> <<WordLex("med"), OpLex(">"), NumLex(5, 1)>>] >>
OtherThresholds ==
    << [metric |-> "http_req_failed",
        condition |-> <<WordLex("rate"), OpLex("<"), NumLex(1, 2)>>],
       [metric |-> "rps", condition |-> <<OpLex(">"), NumLex(100, 1)>>],
       [metric |-> "iterations", condition |-> <<OpLex(">="), NumLex(1, 1)>>],
       [metric |-> "vus", condition |-> <<OpLex("<"), NumLex(5, 1)>>] >>
ThresholdLists == {DurationThresholds, OtherThresholds, <<>>}

\* a call made on the collector and what it returned
CollectorCall(op, at, p, thresholds, got) ==
    [op |-> op, at |-> at, p |-> p, thresholds |-> thresholds, got |-> got]

\* no collector
CollectorIdle == collector = [metrics |-> <<>>, now |-> 0, calls |-> <<>>, held |-> FALSE]

\* MetricsCollector::new (metrics.rs 14-20) and the record() calls
\* (metrics.rs 23-30) that filled it
CollectorInit ==
    \E ms \in SampleLists :
        collector = [metrics |-> ms, now |-> 0, calls |-> <<>>, held |-> TRUE]

\* start_time.elapsed() grows (metrics.rs 119)
CollectorClock ==
    /\ collector.held
    /\ collector.now < MaxClock
    /\ collector' = [collector EXCEPT !.now = @ + 1]
    /\ UNCHANGED <<scenarioVars, perfVars, scheduler, call, database>>

\* a call of calculate_aggregates (metrics.rs 89-148)
CollectorAggregate ==
    /\ collector.held
    /\ Len(collector.calls) < MaxCalls
    /\ collector' = [collector EXCEPT !.calls =
           Append(@, CollectorCall("calculate_aggregates", collector.now, 0, <<>>,
                      calculate_aggregates(collector.metrics, collector.now)))]
    /\ UNCHANGED <<scenarioVars, perfVars, scheduler, call, database>>

\* a call of percentile (metrics.rs 220-228) on the sorted durations
CollectorPercentile ==
    /\ collector.held
    /\ Len(collector.calls) < MaxCalls
    /\ \E p \in AskedPercentiles :
           collector' = [collector EXCEPT !.calls =
               Append(@, CollectorCall("percentile", collector.now, p, <<>>,
                          percentile(SortedDurations(collector.metrics), p)))]
    /\ UNCHANGED <<scenarioVars, perfVars, scheduler, call, database>>

CollectorEvaluateDraining ==
    /\ collector.held
    /\ Len(collector.calls) < MaxCalls
    /\ \E thresholds \in ThresholdLists :
           collector' = [collector EXCEPT
               !.calls = Append(@, CollectorCall("evaluate_thresholds", collector.now, 0,
                                    thresholds,
                                    evaluate_thresholds(thresholds, collector.metrics,
                                                        collector.now))),
               !.metrics = <<>>]
    /\ UNCHANGED <<scenarioVars, perfVars, scheduler, call, database>>

\* a call of evaluate_thresholds (metrics.rs 206-216)
CollectorEvaluate ==
    /\ collector.held
    /\ Len(collector.calls) < MaxCalls
    /\ \E thresholds \in ThresholdLists :
           collector' = [collector EXCEPT !.calls =
               Append(@, CollectorCall("evaluate_thresholds", collector.now, 0, thresholds,
                          evaluate_thresholds(thresholds, collector.metrics,
                                              collector.now)))]
    /\ UNCHANGED <<scenarioVars, perfVars, scheduler, call, database>>

CollectorNext ==
    CollectorClock \/ CollectorAggregate \/ CollectorPercentile \/ CollectorEvaluate

(* ================ functions of the program on their own ================ *)
\* longest path string handed to extract_json_path, in characters
MaxPathLen == 4

\* no function applied
CallIdle == call = [fn |-> "none"]

(* ---- extract_json_path on the text of a path (executor.rs 855-878, ---- *)
(* ---- and the same text in performance/executor.rs 679-702) ------------ *)
\* the characters paths are written with
PathChars == {"a", "b", "[", "]", "0", "1", "."}
PathStrings == UNION { [1..n -> PathChars] : n \in 0..MaxPathLen }

RECURSIVE SplitDots(_, _)
\* path.split('.'): the parts between the dots, `part` being the one begun
SplitDots(chars, part) ==
    IF chars = <<>> THEN <<part>>
    ELSE IF Head(chars) = "." THEN <<part>> \o SplitDots(Tail(chars), <<>>)
         ELSE SplitDots(Tail(chars), Append(part, Head(chars)))

RECURSIVE KeyOf(_)
\* the characters of a key as one string
KeyOf(chars) == IF chars = <<>> THEN "" ELSE Head(chars) \o KeyOf(Tail(chars))

RECURSIVE ParseUsize(_, _)
\* str::parse::<usize>: the number when the text is one or more digits
ParseUsize(chars, acc) ==
    IF chars = <<>> THEN Some(acc)
    ELSE CASE Head(chars) = "0" -> ParseUsize(Tail(chars), 10 * acc)
           [] Head(chars) = "1" -> ParseUsize(Tail(chars), 10 * acc + 1)
           [] OTHER -> None

\* part.find('['), 0-based
FindBracket(part) ==
    LET at == { i \in DOMAIN part : part[i] = "[" }
    IN  IF at = {} THEN None ELSE Some(Least(at) - 1)

\* the key and index a part is cut into (executor.rs 861-863); the slice
\* part[bracket_pos + 1 .. part.len() - 1] panics when it begins after its end
CutPart(part) ==
    IF IsNone(FindBracket(part))
    THEN [panicked |-> FALSE, part |-> Part(KeyOf(part))]
    ELSE LET bracket_pos == Unwrap(FindBracket(part))
             index_str == SubSeq(part, bracket_pos + 2, Len(part) - 1)
         IN  IF bracket_pos + 1 > Len(part) - 1
             THEN [panicked |-> TRUE]
             ELSE [panicked |-> FALSE,
                   part |-> [key |-> KeyOf(SubSeq(part, 1, bracket_pos)), bracket |-> TRUE,
                             index |-> IF index_str = <<>> THEN None
                                       ELSE ParseUsize(index_str, 0)]]

RECURSIVE WalkParts(_, _)
\* the loop of extract_json_path over the parts left
WalkParts(current, parts) ==
    IF parts = <<>> THEN [panicked |-> FALSE, value |-> Some(current)]
    ELSE LET cut == CutPart(Head(parts)) IN
         IF cut.panicked THEN [panicked |-> TRUE, value |-> None]
         ELSE LET next == ApplyPart(current, cut.part) IN
              IF IsNone(next) THEN [panicked |-> FALSE, value |-> None]
              ELSE WalkParts(Unwrap(next), Tail(parts))

\* extract_json_path(value, path) on the text of the path: what it returns,
\* or that it panicked
extract_json_path_of(value, path) == WalkParts(value, SplitDots(path, <<>>))

\* the values paths are followed in
PathValues ==
    { JObj([a |-> JArr(<<JNum(7), JObj([b |-> JNull])>>), b |-> JObj([a |-> JStr(T("v"))])]),
      JArr(<<JObj([a |-> JNum(1)]), JNum(2)>>),
      JNum(3) }

(* ---- evaluate_assertion (executor.rs 881-1009) ------------------------ *)
\* the response of E3, status 200 and body {"x": 5}, and another
E3Response ==
    [ok |-> TRUE, status |-> 200, headers |-> [ct |-> T("json")],
     body |-> JObj([x |-> JNum(5)]), duration_ms |-> 10]
AssertedResponses ==
    { E3Response,
      [ok |-> TRUE, status |-> 404, headers |-> EmptyMap,
       body |-> JObj([x |-> JStr(T("5")), y |-> JNull]), duration_ms |-> 0] }

\* where an assertion looks: source, path and header name
AssertedPlaces ==
    { [source |-> "status", path |-> None, header |-> None],
      [source |-> "duration", path |-> None, header |-> None],
      [source |-> "cookie", path |-> None, header |-> None],
      [source |-> "header", path |-> None, header |-> Some("ct")],
      [source |-> "header", path |-> None, header |-> None],
      [source |-> "body", path |-> None, header |-> None],
      [source |-> "body", path |-> Some(<<Part("x")>>), header |-> None],
      [source |-> "body", path |-> Some(<<Part("y")>>), header |-> None] }
KnownOperators ==
    {"equals", "notEquals", "contains", "matches", "greaterThan", "lessThan", "exists"}
AssertedOperators == KnownOperators \cup {"startsWith"}
ExpectedValues ==
    { JNum(200), JNum(4), JNum(5), JNum(0), JStr(T("5")), JStr(T("json")), JStr(T("(")),
      JNull, JObj([x |-> JNum(5)]) }
Assertions ==
    { [name |-> "a", source |-> at.source, path |-> at.path, header |-> at.header,
       operator |-> op, expected |-> e] :
        at \in AssertedPlaces, op \in AssertedOperators, e \in ExpectedValues }

\* the four assertions of E3
E3Assertions ==
    << [name |-> "status equals 200", source |-> "status", path |-> None, header |-> None,
        operator |-> "equals", expected |-> JNum(200)],
       [name |-> "x greaterThan 4", source |-> "body", path |-> Some(<<Part("x")>>),
        header |-> None, operator |-> "greaterThan", expected |-> JNum(4)],
       [name |-> "x lessThan 5", source |-> "body", path |-> Some(<<Part("x")>>),
        header |-> None, operator |-> "lessThan", expected |-> JNum(5)],
       [name |-> "y exists", source |-> "body", path |-> Some(<<Part("y")>>),
        header |-> None, operator |-> "exists", expected |-> JNull] >>
\* executor.rs 585-602: every assertion evaluated, the step passed when all did
E3Evaluated ==
    [i \in DOMAIN E3Assertions |->
        evaluate_assertion(E3Assertions[i], E3Response, E3Response.duration_ms)]
E3StepStatus ==
    StepStatus(\A i \in DOMAIN E3Evaluated : E3Evaluated[i].passed = Some(TRUE), E3Response)

(* ---- resolve_url of either mode --------------------------------------- *)
\* URLs of steps after variable resolution, and project base URLs
StepUrls ==
    { <<L("http://"), L("api"), L("/"), L("x")>>, <<L("https://"), L("api")>>,
      <<L("HTTP://"), L("api")>>, <<L("/"), L("x")>>, <<L("/")>>, <<L("x"), L("/")>>,
      <<L("x")>>, <<>> }
BaseUrls ==
    { None, Some(<<L("http://"), L("host")>>), Some(<<L("http://"), L("host"), L("/")>>),
      Some(<<L("http://"), L("host"), L("/"), L("/")>>), Some(<<L("/")>>), Some(<<>>) }

(* ---- the calls -------------------------------------------------------- *)
FunctionsInit ==
    \/ \E v \in PathValues, path \in PathStrings :
           call = [fn |-> "extract_json_path", value |-> v, path |-> path, got |-> None]
    \/ \E a \in Assertions, r \in AssertedResponses :
           call = [fn |-> "evaluate_assertion", assertion |-> a, response |-> r, got |-> None]
    \/ \E url \in StepUrls, base \in BaseUrls :
           call = [fn |-> "resolve_url", url |-> url, base_url |-> base,
                   scenario |-> None, load |-> None]

\* extract_json_path is called
ApplyExtractJsonPath ==
    /\ call.fn = "extract_json_path"
    /\ IsNone(call.got)
    /\ call' = [call EXCEPT !.got = Some(extract_json_path_of(call.value, call.path))]
    /\ UNCHANGED <<scenarioVars, perfVars, scheduler, collector, database>>

\* evaluate_assertion is called
ApplyEvaluateAssertion ==
    /\ call.fn = "evaluate_assertion"
    /\ IsNone(call.got)
    /\ call' = [call EXCEPT !.got =
           Some(evaluate_assertion(call.assertion, call.response, call.response.duration_ms))]
    /\ UNCHANGED <<scenarioVars, perfVars, scheduler, collector, database>>

\* ScenarioExecutor::resolve_url is called
ApplyResolveUrl ==
    /\ call.fn = "resolve_url"
    /\ IsNone(call.scenario)
    /\ call' = [call EXCEPT !.scenario = Some(resolve_url(call.url, call.base_url))]
    /\ UNCHANGED <<scenarioVars, perfVars, scheduler, collector, database>>

\* resolve_url of the load mode is called
ApplyPerfResolveUrl ==
    /\ call.fn = "resolve_url"
    /\ IsNone(call.load)
    /\ call' = [call EXCEPT !.load = Some(perf_resolve_url(call.url, call.base_url))]
    /\ UNCHANGED <<scenarioVars, perfVars, scheduler, collector, database>>

FunctionsNext ==
    ApplyExtractJsonPath \/ ApplyEvaluateAssertion \/ ApplyResolveUrl \/ ApplyPerfResolveUrl

(* ============== scenario documents in YAML (scenario/yaml.rs) ========== *)
\* most steps of a drawn document
MaxYamlSteps == 1

\* A YAML text is its layout and, when it is YAML at all, the tree it
\* denotes: a mapping whose absent keys are None.  Texts as written have the
\* layout "written", texts from serde_yaml::to_string the layout "canonical".
YamlText(layout, yaml) == [layout |-> layout, yaml |-> yaml]

YamlOk(value) == [ok |-> TRUE, value |-> value]
YamlErr(error) == [ok |-> FALSE, error |-> error]

\* Option::map
OptionMap(F(_), o) == IF IsSome(o) THEN Some(F(Unwrap(o))) ELSE None
SeqMap(F(_), list) == [i \in DOMAIN list |-> F(list[i])]

\* StepYaml (yaml.rs 55-78) of a step mapping: enabled defaults to true
StepYamlOf(doc) == [doc EXCEPT !.enabled = UnwrapOr(doc.enabled, TRUE)]

\* serde_yaml::from_str::<ScenarioYaml>: the defaults of yaml.rs 15-39, an
\* error for what is no YAML or lacks the key `name`; the error tells the text
\* it arose in
from_str_ScenarioYaml(text) ==
    IF IsNone(text.yaml) THEN YamlErr([reason |-> "syntax", text |-> text.layout])
    ELSE LET doc == Unwrap(text.yaml) IN
         IF IsNone(doc.name)
         THEN YamlErr([reason |-> "missing field name", text |-> text.layout])
         ELSE YamlOk([name |-> Unwrap(doc.name),
                      description |-> doc.description,
                      priority |-> UnwrapOr(doc.priority, "medium"),
                      base_url |-> doc.baseUrl,
                      variables |-> UnwrapOr(doc.variables, EmptyMap),
                      pre_script |-> doc.preScript,
                      post_script |-> doc.postScript,
                      steps |-> SeqMap(StepYamlOf, UnwrapOr(doc.steps, <<>>))])

\* serde_yaml::to_string of a StepYaml: a None is skipped, enabled is written
StepDocOf(step_yaml) == [step_yaml EXCEPT !.enabled = Some(step_yaml.enabled)]

\* serde_yaml::to_string of a ScenarioYaml
to_string_ScenarioYaml(yaml) ==
    YamlText("canonical",
             Some([name |-> Some(yaml.name),
                   description |-> yaml.description,
                   priority |-> Some(yaml.priority),
                   baseUrl |-> yaml.base_url,
                   variables |-> Some(yaml.variables),
                   preScript |-> yaml.pre_script,
                   postScript |-> yaml.post_script,
                   steps |-> Some(SeqMap(StepDocOf, yaml.steps))]))

\* auto_correct_yaml (yaml.rs 342-351): the text parsed as any YAML value and
\* written anew
auto_correct_yaml(text) ==
    IF IsNone(text.yaml)
    THEN YamlErr([reason |-> "syntax", text |-> text.layout])
    ELSE YamlOk(YamlText("canonical", text.yaml))

\* parse_scenario_yaml (yaml.rs 354-375)
parse_scenario_yaml(text) ==
    LET first == from_str_ScenarioYaml(text) IN
    IF first.ok THEN first
    ELSE LET corrected == auto_correct_yaml(text) IN
         IF corrected.ok
         THEN LET second == from_str_ScenarioYaml(corrected.value) IN
              IF second.ok THEN second
              ELSE YamlErr([prefix |-> "Failed to parse YAML even after auto-correction: ",
                            cause |-> second.error])
         ELSE YamlErr([prefix |-> "Failed to parse YAML: ", cause |-> first.error])

\* yaml_to_scenario (yaml.rs 403-418); uuid is the Uuid::new_v4() and now the
\* Utc::now() of the call
yaml_to_scenario(yaml, project_id, uuid, now) ==
    [id |-> uuid, project_id |-> project_id, name |-> yaml.name,
     description |-> yaml.description, priority |-> yaml.priority,
     variables |-> JObj(yaml.variables),
     pre_script |-> yaml.pre_script, post_script |-> yaml.post_script,
     created_at |-> now, updated_at |-> now]

\* s.chars().next()
FirstChar(chars) == IF chars = <<>> THEN None ELSE Some(chars[1])
AndThenFirstChar(o) == IF IsSome(o) THEN FirstChar(Unwrap(o)) ELSE None

ExtractorOfYaml(e) ==
    [name |-> e.name, source |-> e.source, path |-> e.path,
     default_value |-> e.default_value]
AssertionOfYaml(a) ==
    [name |-> a.name, source |-> a.source, path |-> a.path, operator |-> a.operator,
     expected |-> a.expected, actual |-> None, passed |-> None, error |-> None]
CsvConfigOfYaml(c) ==
    [file_name |-> c.file_name, quote_char |-> AndThenFirstChar(c.quote_char),
     delimiter |-> AndThenFirstChar(c.delimiter)]

\* determine_step_type_and_config (yaml.rs 435-528): the first of request,
\* delay, script, condition, loop that is given, an empty GET request when
\* none is; the config is the serde_json::to_value of the step config
determine_step_type_and_config(yaml) ==
    CASE IsSome(yaml.request) ->
            LET request == Unwrap(yaml.request) IN
            [step_type |-> "request",
             config |-> [endpointId |-> None, url |-> request.url,
                         method |-> request.method, headers |-> request.headers,
                         params |-> request.params, body |-> request.body,
                         extractVariables |->
                             IF IsSome(yaml.extract)
                             THEN Some(SeqMap(ExtractorOfYaml, Unwrap(yaml.extract)))
                             ELSE None,
                         assertions |->
                             IF IsSome(yaml.assertions)
                             THEN Some(SeqMap(AssertionOfYaml, Unwrap(yaml.assertions)))
                             ELSE None,
                         with_items_from_csv |->
                             OptionMap(CsvConfigOfYaml, yaml.with_items_from_csv)]]
      [] IsNone(yaml.request) /\ IsSome(yaml.delay) ->
            [step_type |-> "delay", config |-> [duration_ms |-> Unwrap(yaml.delay).duration]]
      [] IsNone(yaml.request) /\ IsNone(yaml.delay) /\ IsSome(yaml.script) ->
            [step_type |-> "script", config |-> [code |-> Unwrap(yaml.script).code]]
      [] IsNone(yaml.request) /\ IsNone(yaml.delay) /\ IsNone(yaml.script)
         /\ IsSome(yaml.condition) ->
            [step_type |-> "condition", config |-> Unwrap(yaml.condition)]
      [] IsNone(yaml.request) /\ IsNone(yaml.delay) /\ IsNone(yaml.script)
         /\ IsNone(yaml.condition) /\ IsSome(yaml.loop) ->
            [step_type |-> "loop", config |-> Unwrap(yaml.loop)]
      [] OTHER ->
            [step_type |-> "request",
             config |-> [endpointId |-> None, url |-> "", method |-> "GET",
                         headers |-> None, params |-> None, body |-> None,
                         extractVariables |-> None, assertions |-> None,
                         with_items_from_csv |-> None]]

\* yaml_to_step (yaml.rs 420-433)
yaml_to_step(yaml, scenario_id, step_order, uuid) ==
    LET typed == determine_step_type_and_config(yaml) IN
    [id |-> uuid, scenario_id |-> scenario_id, step_order |-> step_order,
     step_type |-> typed.step_type, name |-> yaml.name, config |-> typed.config,
     enabled |-> yaml.enabled]

\* yaml_to_scenario_with_steps (yaml.rs 531-543); the step of index i gets
\* the uuid <<uuid, i>>
yaml_to_scenario_with_steps(yaml, project_id, uuid, now) ==
    LET scenario == yaml_to_scenario(yaml, project_id, uuid, now) IN
    [scenario |-> scenario,
     steps |-> [i \in DOMAIN yaml.steps |->
                   yaml_to_step(yaml.steps[i], scenario.id, i - 1, <<uuid, i>>)]]

ExtractorToYaml(e) ==
    [name |-> e.name, source |-> e.source, path |-> e.path,
     default_value |-> e.default_value]
AssertionToYaml(a) ==
    [name |-> a.name, source |-> a.source, path |-> a.path, operator |-> a.operator,
     expected |-> a.expected]
\* yaml.rs 257-263: a char becomes the string of it
CsvConfigToYaml(c) ==
    [file_name |-> c.file_name,
     quote_char |-> IF IsSome(c.quote_char) THEN Some(<<Unwrap(c.quote_char)>>) ELSE None,
     delimiter |-> IF IsSome(c.delimiter) THEN Some(<<Unwrap(c.delimiter)>>) ELSE None]

\* an extractor or assertion list of a request config as step_to_yaml writes
\* it (yaml.rs 225-255): an absent list and an empty list are both left out
ListToYaml(F(_), list) ==
    IF IsSome(list) /\ Unwrap(list) # <<>> THEN Some(SeqMap(F, Unwrap(list))) ELSE None

\* step_to_yaml (yaml.rs 200-305); the configs are those yaml_to_step made,
\* which decode
step_to_yaml(step) ==
    LET bare == [name |-> step.name, enabled |-> step.enabled, request |-> None,
                 delay |-> None, script |-> None, condition |-> None, loop |-> None,
                 extract |-> None, assertions |-> None, with_items_from_csv |-> None]
        config == step.config
    IN  CASE step.step_type = "request" ->
                [bare EXCEPT
                    !.request = Some([method |-> config.method, url |-> config.url,
                                      headers |-> config.headers, params |-> config.params,
                                      body |-> config.body]),
                    !.extract = ListToYaml(ExtractorToYaml, config.extractVariables),
                    !.assertions = ListToYaml(AssertionToYaml, config.assertions),
                    !.with_items_from_csv =
                        OptionMap(CsvConfigToYaml, config.with_items_from_csv)]
          [] step.step_type = "delay" ->
                [bare EXCEPT !.delay = Some([duration |-> config.duration_ms])]
          [] step.step_type = "script" ->
                [bare EXCEPT !.script = Some([code |-> config.code])]
          [] step.step_type = "condition" -> [bare EXCEPT !.condition = Some(config)]
          [] step.step_type = "loop" -> [bare EXCEPT !.loop = Some(config)]

\* scenario_to_yaml (yaml.rs 176-197)
scenario_to_yaml(scenario, scenario_steps, project_base_url) ==
    [name |-> scenario.name, description |-> scenario.description,
     priority |-> scenario.priority, base_url |-> project_base_url,
     variables |-> IF scenario.variables.k = "obj" THEN scenario.variables.o ELSE EmptyMap,
     pre_script |-> scenario.pre_script, post_script |-> scenario.post_script,
     steps |-> SeqMap(step_to_yaml, scenario_steps)]

\* scenario_to_yaml_string (yaml.rs 308-315)
scenario_to_yaml_string(scenario, scenario_steps, project_base_url) ==
    to_string_ScenarioYaml(scenario_to_yaml(scenario, scenario_steps, project_base_url))

(* ---- the documents ---------------------------------------------------- *)
BareStepDoc ==
    [name |-> "step", enabled |-> None, request |-> None, delay |-> None,
     script |-> None, condition |-> None, loop |-> None, extract |-> None,
     assertions |-> None, with_items_from_csv |-> None]
LoginRequestYaml ==
    [method |-> "POST", url |-> "/api/login", headers |-> None, params |-> None,
     body |-> Some(JObj([email |-> JStr(T("test@test.com"))]))]
ExtractorYaml ==
    [name |-> "tok", source |-> "body", path |-> "token", default_value |-> None]
AssertionYaml ==
    [name |-> "Status OK", source |-> "status", path |-> None, operator |-> "equals",
     expected |-> JNum(200)]
CsvConfigYamls ==
    { [file_name |-> "users.csv", quote_char |-> None, delimiter |-> None],
      [file_name |-> "users.csv", quote_char |-> Some(<<"|", "|">>),
       delimiter |-> Some(<<>>)] }
OptionalLists(x) == {None, Some(<<>>), Some(<<x>>)}
\* the step mappings without `enabled`: requests with every combination of
\* extract, assertions and with_items_from_csv, the other step types, a step
\* of no type, and steps with keys their type does not read
StepBodies ==
    { [BareStepDoc EXCEPT !.request = Some(LoginRequestYaml), !.extract = e,
                          !.assertions = a, !.with_items_from_csv = c] :
        e \in OptionalLists(ExtractorYaml), a \in OptionalLists(AssertionYaml),
        c \in {None} \cup { Some(y) : y \in CsvConfigYamls } }
    \cup { [BareStepDoc EXCEPT !.delay = Some([duration |-> 100])],
           [BareStepDoc EXCEPT !.delay = Some([duration |-> 100]),
                               !.assertions = Some(<<AssertionYaml>>)],
           [BareStepDoc EXCEPT !.request = Some(LoginRequestYaml),
                               !.delay = Some([duration |-> 100])],
           [BareStepDoc EXCEPT !.script = Some([code |-> "x = 1"])],
           [BareStepDoc EXCEPT !.condition =
               Some([condition |-> "ok", true_steps |-> <<"a">>, false_steps |-> <<>>])],
           [BareStepDoc EXCEPT !.loop =
               Some([loop_type |-> "for", count |-> Some(2), iterator_variable |-> None,
                     data_source |-> None, steps |-> <<"a">>])],
           BareStepDoc }
StepDocs ==
    { [b EXCEPT !.enabled = en] : b \in StepBodies, en \in {None, Some(TRUE), Some(FALSE)} }

\* the scenario mappings: with and without each optional key
ScenarioDocs ==
    { [name |-> n, description |-> d, priority |-> pr, baseUrl |-> b, variables |-> v,
       preScript |-> None, postScript |-> d, steps |-> st] :
        n \in {Some("Roundtrip Test")},
        d \in {None, Some("Test roundtrip conversion")},
        pr \in {None, Some("high")},
        b \in {None, Some("http://host")},
        v \in {None, Some([token |-> JStr(T("abc123"))])},
        st \in {None} \cup { Some(list) :
                  list \in UNION { [1..k -> StepDocs] : k \in 0..MaxYamlSteps } } }

\* the texts handed to parse_scenario_yaml: scenario documents, YAML that is
\* no scenario (no `name`), and text that is no YAML
YamlTexts ==
    { YamlText("written", Some(doc)) : doc \in ScenarioDocs }
    \cup { YamlText("written", Some([doc EXCEPT !.name = None])) :
             doc \in { x \in ScenarioDocs : IsNone(x.steps) } }
    \cup { YamlText("written", None) }

(* ---- import, export, import again (commands.rs 577-582, 520-526) ------ *)
YamlInit ==
    \E text \in YamlTexts :
        call = [fn |-> "yaml", text |-> text, parsed |-> None, imported |-> None,
                exported |-> None, reimported |-> None]

\* parse_scenario_yaml on the text
YamlParse ==
    /\ call.fn = "yaml"
    /\ IsNone(call.parsed)
    /\ call' = [call EXCEPT !.parsed = Some(parse_scenario_yaml(call.text))]
    /\ UNCHANGED <<scenarioVars, perfVars, scheduler, collector, database>>

\* yaml_to_scenario_with_steps on what was parsed
YamlImport ==
    /\ call.fn = "yaml"
    /\ IsSome(call.parsed) /\ Unwrap(call.parsed).ok
    /\ IsNone(call.imported)
    /\ call' = [call EXCEPT !.imported =
           Some(yaml_to_scenario_with_steps(Unwrap(call.parsed).value, "project", "u1", 1))]
    /\ UNCHANGED <<scenarioVars, perfVars, scheduler, collector, database>>

\* scenario_to_yaml_string on what was imported
YamlExport ==
    /\ call.fn = "yaml"
    /\ IsSome(call.imported)
    /\ IsNone(call.exported)
    /\ \E b \in {None, Some("http://host")} :
           call' = [call EXCEPT !.exported =
               Some(scenario_to_yaml_string(Unwrap(call.imported).scenario,
                                            Unwrap(call.imported).steps, b))]
    /\ UNCHANGED <<scenarioVars, perfVars, scheduler, collector, database>>

\* the exported text parsed and imported
YamlReimport ==
    /\ call.fn = "yaml"
    /\ IsSome(call.exported)
    /\ IsNone(call.reimported)
    /\ LET again == parse_scenario_yaml(Unwrap(call.exported))
       IN  call' = [call EXCEPT !.reimported =
               IF again.ok
               THEN Some(yaml_to_scenario_with_steps(again.value, "project", "u2", 2))
               ELSE None]
    /\ UNCHANGED <<scenarioVars, perfVars, scheduler, collector, database>>

YamlNext == YamlParse \/ YamlImport \/ YamlExport \/ YamlReimport

(* ======== endpoints found by the scanners (scanner/parsers/*.rs) ======= *)
\* most endpoints handed to deduplicate_endpoints
MaxEndpoints == 3

\* ScannedEndpoint (scanner/types.rs 29-41): the key fields and where it was found
ScannedEndpoints ==
    [method : {"GET", "POST"}, path : {"/a", "/b"}, action : {"index", "show"}]

EndpointLists == UNION { [1..n -> ScannedEndpoints] : n \in 0..MaxEndpoints }

\* format!("{}:{}", endpoint.method, endpoint.path)
EndpointKey(endpoint) == endpoint.method \o ":" \o endpoint.path

RECURSIVE SeenAfter(_, _)
\* the map seen after the loop of NestJSParser::deduplicate_endpoints
SeenAfter(seen, endpoints) ==
    IF endpoints = <<>> THEN seen
    ELSE LET endpoint == Head(endpoints)
             key == EndpointKey(endpoint)
         IN  SeenAfter(IF key \notin DOMAIN seen THEN MapInsert(seen, key, endpoint)
                       ELSE seen,
                       Tail(endpoints))

RECURSIVE LaravelSeenAfter(_, _)
\* the map seen after the loop of LaravelParser::deduplicate_endpoints
LaravelSeenAfter(seen, endpoints) ==
    IF endpoints = <<>> THEN seen
    ELSE LET endpoint == Head(endpoints)
             key == EndpointKey(endpoint)
         IN  LaravelSeenAfter(IF key \notin DOMAIN seen THEN MapInsert(seen, key, endpoint)
                              ELSE seen,
                              Tail(endpoints))

\* seen.into_values().collect(): the values of the map in any order
IntoValues(seen) ==
    { list \in [1..Cardinality(DOMAIN seen) -> { seen[k] : k \in DOMAIN seen }] :
        \A k \in DOMAIN seen : \E i \in DOMAIN list : list[i] = seen[k] }

\* NestJSParser::deduplicate_endpoints: every vector it may return
deduplicate_endpoints(endpoints) == IntoValues(SeenAfter(EmptyMap, endpoints))

\* LaravelParser::deduplicate_endpoints: every vector it may return
laravel_deduplicate_endpoints(endpoints) == IntoValues(LaravelSeenAfter(EmptyMap, endpoints))

ScannerInit ==
    \E dialect \in {"nestjs", "laravel"}, endpoints \in EndpointLists :
        call = [fn |-> "deduplicate", dialect |-> dialect, endpoints |-> endpoints,
                unique |-> None]

\* NestJSParser::parse_endpoints hands what it found to deduplicate_endpoints
NestDeduplicate ==
    /\ call.fn = "deduplicate" /\ call.dialect = "nestjs"
    /\ IsNone(call.unique)
    /\ \E unique \in deduplicate_endpoints(call.endpoints) :
           call' = [call EXCEPT !.unique = Some(unique)]
    /\ UNCHANGED <<scenarioVars, perfVars, scheduler, collector, database>>

\* LaravelParser::parse_endpoints hands what it found to deduplicate_endpoints
LaravelDeduplicate ==
    /\ call.fn = "deduplicate" /\ call.dialect = "laravel"
    /\ IsNone(call.unique)
    /\ \E unique \in laravel_deduplicate_endpoints(call.endpoints) :
           call' = [call EXCEPT !.unique = Some(unique)]
    /\ UNCHANGED <<scenarioVars, perfVars, scheduler, collector, database>>

ScannerNext == NestDeduplicate \/ LaravelDeduplicate

(* ====== the VU manager on a scheduler (performance/executor.rs) ======== *)
\* PerformanceTestConfig (performance/types.rs 70-87): what shapes the load
\* of a run without a cap on the iterations
ShapeConfigs ==
    [vus : {None, Some(1), Some(2)}, duration_secs : {None, Some(1), Some(2)},
     stages : {None} \cup { Some(stages) : stages \in StageLists },
     iterations : {None}]

\* the stages of StageScheduler::fixed (stages.rs 29-35)
fixed(n, secs) == << [duration_secs |-> secs, target_vus |-> n] >>

\* PerformanceExecutor::create_stage_scheduler: the stages the scheduler is
\* made of
create_stage_scheduler(config) ==
    IF IsSome(config.stages) /\ Unwrap(config.stages) # <<>>
    THEN Unwrap(config.stages)
    ELSE fixed(UnwrapOr(config.vus, 1), UnwrapOr(config.duration_secs, 30))

\* the manager task of a run of the configuration, as it starts: its first
\* pass of the loop is at once, the next ones follow every 100 ms
ManagerInit ==
    \E config \in ShapeConfigs :
        call = [fn |-> "manager", config |-> config,
                stages |-> create_stage_scheduler(config),
                elapsed |-> 0,          \* start_time.elapsed().as_secs()
                passed |-> FALSE,       \* the loop was passed within this second
                pc |-> "loop", current_vus |-> 0, next_vu_id |-> 0]

\* the passes of the manager loop within one second, in which the scheduler
\* gives the same readings: the loop is left when the scheduler is completed,
\* else the VUs missing to the target are spawned and counted.  No VU exits
\* before the manager has left the loop, there being no cap.
ManagerPass ==
    /\ call.fn = "manager"
    /\ call.pc = "loop" /\ ~call.passed
    /\ IF LeaveManagerLoop(FALSE, is_completed(call.stages, call.elapsed), FALSE)
       THEN call' = [call EXCEPT !.pc = "left"]
       ELSE LET target_vus == get_current_vus(call.stages, call.elapsed)
                active_vus == call.current_vus
                vus_to_spawn == IF U32Less(active_vus, target_vus)
                                THEN target_vus - active_vus ELSE 0
            IN  call' = [call EXCEPT !.passed = TRUE,
                                     !.next_vu_id = @ + vus_to_spawn,
                                     !.current_vus = @ + vus_to_spawn]
    /\ UNCHANGED <<scenarioVars, perfVars, scheduler, collector, database>>

\* a second ends; the manager, whose interval is 100 ms, has passed its loop
\* in it
ManagerSecond ==
    /\ call.fn = "manager"
    /\ call.pc = "loop" /\ call.passed
    /\ call' = [call EXCEPT !.elapsed = @ + 1, !.passed = FALSE]
    /\ UNCHANGED <<scenarioVars, perfVars, scheduler, collector, database>>

ManagerNext == ManagerPass \/ ManagerSecond

(* ========= the table test_scenario_steps (database.rs 129-138) ========= *)
\* most steps ever added to the table
MaxStored == 3

\* scenarios that own steps
ScenarioIds == {"s1", "s2"}

\* ids handed out by Uuid::new_v4, in the order they are made
StoredIds == 1..MaxStored

\* no table opened
DatabaseIdle == database = [rows |-> <<>>, made |-> 0, last |-> [op |-> "none"]]

\* the rows of one scenario: get_test_scenario_steps without the ORDER BY
RowsOf(rows, scenario_id) == { id \in DOMAIN rows : rows[id].scenario_id = scenario_id }

\* existing_steps.iter().map(|s| s.step_order).max().unwrap_or(-1)
MaxOrder(rows, scenario_id) ==
    IF RowsOf(rows, scenario_id) = {} THEN -1
    ELSE CHOOSE m \in { rows[id].step_order : id \in RowsOf(rows, scenario_id) } :
             \A id \in RowsOf(rows, scenario_id) : rows[id].step_order <= m

\* INSERT OR REPLACE of one row, keyed by id
save_test_scenario_step(rows, id, scenario_id, step_order) ==
    [k \in DOMAIN rows \cup {id} |->
        IF k = id THEN [scenario_id |-> scenario_id, step_order |-> step_order]
        ELSE rows[k]]

\* DELETE ... WHERE id = ?
delete_test_scenario_step(rows, step_id) ==
    [k \in DOMAIN rows \ {step_id} |-> rows[k]]

RECURSIVE reorder_test_scenario_steps(_, _, _, _)
\* one UPDATE per listed id, in the order of the list: a row takes the index
\* of its id when it is a row of the scenario, any other id updates nothing
reorder_test_scenario_steps(rows, scenario_id, step_ids, at) ==
    IF at > Len(step_ids) THEN rows
    ELSE LET step_id == step_ids[at]
             updated == IF step_id \in RowsOf(rows, scenario_id)
                        THEN [rows EXCEPT ![step_id].step_order = at - 1]
                        ELSE rows
         IN  reorder_test_scenario_steps(updated, scenario_id, step_ids, at + 1)

\* lists of step ids a request may carry
StepIdLists == UNION { [1..n -> StoredIds] : n \in 0..MaxStored }

DatabaseInit == DatabaseIdle

\* commands::add_test_scenario_step
AddStep ==
    /\ database.made < MaxStored
    /\ \E scenario_id \in ScenarioIds :
         LET id == database.made + 1
         IN  database' = [rows |-> save_test_scenario_step(database.rows, id, scenario_id,
                                       MaxOrder(database.rows, scenario_id) + 1),
                          made |-> id,
                          last |-> [op |-> "add", scenario_id |-> scenario_id]]
    /\ UNCHANGED <<scenarioVars, perfVars, scheduler, collector, call>>

\* commands::delete_test_scenario_step
DeleteStep ==
    /\ \E step_id \in StoredIds :
         database' = [database EXCEPT
                        !.rows = delete_test_scenario_step(database.rows, step_id),
                        !.last = [op |-> "delete", step_id |-> step_id]]
    /\ UNCHANGED <<scenarioVars, perfVars, scheduler, collector, call>>

\* commands::reorder_test_scenario_steps
ReorderSteps ==
    /\ \E scenario_id \in ScenarioIds, step_ids \in StepIdLists :
         database' = [database EXCEPT
                        !.rows = reorder_test_scenario_steps(database.rows, scenario_id,
                                                             step_ids, 1),
                        !.last = [op |-> "reorder", scenario_id |-> scenario_id,
                                  step_ids |-> step_ids]]
    /\ UNCHANGED <<scenarioVars, perfVars, scheduler, collector, call>>

DatabaseNext == AddStep \/ DeleteStep \/ ReorderSteps

\* no component on its own
UnitsIdle == SchedulerIdle /\ CollectorIdle /\ CallIdle /\ DatabaseIdle

vars == <<scenarioVars, perfVars, unitVars>>

\* the steps table under the three commands
InitDatabase ==
    DatabaseInit /\ SchedulerIdle /\ CollectorIdle /\ CallIdle /\ ScenarioIdle /\ PerfIdle
NextDatabase == DatabaseNext
SpecDatabase == InitDatabase /\ [][NextDatabase]_vars

\* the scanners' deduplication
InitScanner ==
    ScannerInit /\ SchedulerIdle /\ CollectorIdle /\ DatabaseIdle /\ ScenarioIdle /\ PerfIdle
NextScanner == ScannerNext
SpecScanner == InitScanner /\ [][NextScanner]_vars

\* the VU manager over the shapes of load
InitManager ==
    ManagerInit /\ SchedulerIdle /\ CollectorIdle /\ DatabaseIdle /\ ScenarioIdle /\ PerfIdle
NextManager == ManagerNext
SpecManager == InitManager /\ [][NextManager]_vars

\* a scenario run
Init == ScenarioInit /\ PerfIdle /\ UnitsIdle
Next == ScenarioNext
Spec == Init /\ [][Next]_vars

\* a load run
InitPerf == PerfInit /\ ScenarioIdle /\ UnitsIdle
NextPerf == PerfNext
SpecPerf == InitPerf /\ [][NextPerf]_vars

\* A load run under the scheduling of the tokio runtime: the clock moves
\* on, and every task that can take a step takes one in the end: run()
\* itself, the reporter, the manager and each VU.  A request in flight ends,
\* with an answer or by the client's timeout of 30 s.  The manager's wait
\* for the VUs need not time out.
\* PerfFinish can be taken exactly when perf_pc = "aggregated", and leaves
\* that state: its weak fairness is that run() does not stay there for ever.
PerfFairness ==
    /\ WF_vars(PerfRunStart \/ PerfAggregate)
    /\ []<>(perf_pc # "aggregated")
    /\ WF_vars(AdvanceTime)
    /\ WF_vars(ReporterTick)
    /\ WF_vars(ManagerTick \/ ManagerSpawn \/ ManagerCount \/ ManagerJoin)
    /\ \A w \in WorkerIds : WF_vars(Worker(w))
SpecPerfFair == InitPerf /\ [][NextPerf]_vars /\ PerfFairness

\* a stage scheduler, its clock and a poller
InitScheduler == SchedulerInit /\ CollectorIdle /\ CallIdle /\ DatabaseIdle
    /\ ScenarioIdle /\ PerfIdle
NextScheduler == SchedulerNext
SpecScheduler == InitScheduler /\ [][NextScheduler]_vars

\* functions of the program, each applied to drawn arguments
InitFunctions == FunctionsInit /\ SchedulerIdle /\ CollectorIdle /\ DatabaseIdle
    /\ ScenarioIdle /\ PerfIdle
NextFunctions == FunctionsNext
SpecFunctions == InitFunctions /\ [][NextFunctions]_vars

\* scenario documents parsed, imported, exported and imported again
InitYaml == YamlInit /\ SchedulerIdle /\ CollectorIdle /\ DatabaseIdle
    /\ ScenarioIdle /\ PerfIdle
NextYaml == YamlNext
SpecYaml == InitYaml /\ [][NextYaml]_vars

\* a metrics collector on its own
InitCollector == CollectorInit /\ SchedulerIdle /\ CallIdle /\ DatabaseIdle
    /\ ScenarioIdle /\ PerfIdle
NextCollector == CollectorNext
SpecCollector == InitCollector /\ [][NextCollector]_vars

\* a scenario run over a CSV file of LongCsvRows data rows
LongCsvRows == 3
InitLongCsv ==
    /\ steps \in StepLists
    /\ scenario_variables = ScenarioVariables
    /\ base_url \in ProjectBaseUrls
    /\ csv_file = Some([k \in 1..LongCsvRows |-> CsvRow(k)])
    /\ pc = "ready"
    /\ variables = EmptyMap
    /\ enabled_steps = <<>>
    /\ total_steps = 0
    /\ index = 0
    /\ csv_records = None
    /\ csv_index = 0
    /\ results = <<>>
    /\ passed_steps = 0
    /\ failed_steps = 0
    /\ skipped_steps = 0
    /\ error_message = None
    /\ events = <<>>
    /\ run = None
    /\ PerfIdle
    /\ UnitsIdle
SpecLongCsv == InitLongCsv /\ [][Next]_vars

\* a run in either mode
InitModes == Init \/ InitPerf
NextModes == ScenarioNext \/ PerfNext
SpecModes == InitModes /\ [][NextModes]_vars

(* ============================ the claims =============================== *)
BadStatuses == {"failed", "error"}

\* the run record, once execute_scenario has returned
Done == pc = "done"
RunRecord == Unwrap(run)

\* C1: the run record's status is failed when at least one executed step
\* result has status failed or error, and passed otherwise.
C1_RunStatusFromResults ==
    Done =>
        RunRecord.status =
            IF \E i \in DOMAIN RunRecord.results : RunRecord.results[i].status \in BadStatuses
            THEN "failed" ELSE "passed"

\* a failed run whose only bad result is an error, beside a passed one
C1_Witness ==
    /\ Done
    /\ RunRecord.status = "failed"
    /\ \E i \in DOMAIN results : results[i].status = "error"
    /\ \E i \in DOMAIN results : results[i].status = "passed"
    /\ \A i \in DOMAIN results : results[i].status # "failed"

AllAssertionsPassed(result) ==
    \A a \in DOMAIN Unwrap(result.assertions) :
        Unwrap(result.assertions)[a].passed = Some(TRUE)

\* C2: a request step result is passed exactly when the transport succeeded
\* (a response was recorded) and every assertion passed, whatever the HTTP
\* status code; it is failed when the transport succeeded and some assertion
\* did not pass.
C2_RequestStepStatus ==
    \A i \in DOMAIN results :
        results[i].step_type = "request" =>
            LET r == results[i]
                good == IsSome(r.response) /\ AllAssertionsPassed(r)
            IN  /\ r.status = "passed" <=> good
                /\ IsSome(r.response) /\ ~AllAssertionsPassed(r) => r.status = "failed"

\* a 500 answer passes a step without assertions and fails one that asserts
\* status 200
C2_Witness ==
    /\ \E i \in DOMAIN results :
          /\ results[i].step_type = "request" /\ results[i].status = "passed"
          /\ IsSome(results[i].response) /\ Unwrap(results[i].response).status = 500
    /\ \E i \in DOMAIN results :
          /\ results[i].step_type = "request" /\ results[i].status = "failed"
          /\ IsSome(results[i].response) /\ ~AllAssertionsPassed(results[i])

\* the results one enabled step gives: one per data row when its CSV file
\* was read, else one
ExpectedResults(step) ==
    LET chk == CsvCheck(step, csv_file, None)
    IN  IF IsSome(chk.records) THEN Len(Unwrap(chk.records)) ELSE 1

RECURSIVE SumExpected(_)
SumExpected(list) ==
    IF list = <<>> THEN 0 ELSE ExpectedResults(Head(list)) + SumExpected(Tail(list))

C4_CountersWithinTotal ==
    Done => RunRecord.passed_steps + RunRecord.failed_steps + RunRecord.skipped_steps
                <= RunRecord.total_steps

\* a run with a CSV expansion that counts both passed and failed results
C4_Witness ==
    /\ Done
    /\ RunRecord.passed_steps > 0
    /\ RunRecord.failed_steps > 0
    /\ RunRecord.total_steps > Len(enabled_steps)

Elements(list) == { list[i] : i \in DOMAIN list }

\* the ids the events of a step carry: its own, and one per CSV row
EventIds(step) == {step.id} \cup { step.id \o "-" \o ToString(k) : k \in 0..MaxRows }

\* C5: a step with enabled = false is never executed, in either mode: a
\* scenario run has no step result and no step event of it, a load run sends
\* no request for it and records no metric of it.
C5_DisabledNeverExecuted ==
    /\ \A s \in Elements(steps) :
          ~s.enabled =>
              /\ \A i \in DOMAIN results : results[i].step_id # s.id
              /\ \A e \in DOMAIN events :
                    "step_id" \in DOMAIN events[e] => events[e].step_id \notin EventIds(s)
              /\ Done => \A i \in DOMAIN RunRecord.results : RunRecord.results[i].step_id # s.id
    /\ \A s \in Elements(perf_steps) :
          ~s.enabled =>
              /\ \A m \in DOMAIN metrics : metrics[m].step_id # s.id
              /\ \A w \in InFlight : perf_enabled[vus[w].pos].id # s.id

\* a finished load run over a disabled and an enabled request step, with a
\* metric of the enabled one
C5_Witness ==
    /\ perf_pc = "done"
    /\ \E s \in Elements(perf_steps) : ~s.enabled /\ s.step_type = "request"
    /\ \E s \in Elements(perf_steps) :
          s.enabled /\ \E m \in DOMAIN metrics : metrics[m].step_id = s.id

ResultsOf(id) == SelectSeq(results, LAMBDA r : r.step_id = id)

\* what the k-th row binds: item is the row, index is k - 1
RowBinding(rows, k) ==
    ("item" :> JObj([key \in DOMAIN rows[k] |-> JStr(T(rows[k][key]))]))
        @@ ("index" :> JNum(k - 1))

\* C7: a step expanded over the n data rows of its CSV file gives exactly n
\* step results, in row order; the k-th was executed with item bound to the
\* k-th row as an object and index bound to k (counting from 0).
C7_OneResultPerRow ==
    \A s \in Elements(enabled_steps) :
        LET chk == CsvCheck(s, csv_file, None) IN
        IsSome(chk.records) =>
            LET rows == Unwrap(chk.records)
                rs == ResultsOf(s.id)
            IN  /\ Len(rs) <= Len(rows)
                /\ Done => Len(rs) = Len(rows)
                /\ \A k \in DOMAIN rs :
                      /\ IsSome(rs[k].request)
                      /\ Unwrap(rs[k].request).body =
                            Some(resolve_variables_in_json(Unwrap(s.config.body),
                                                           RowBinding(rows, k)))
                      /\ Unwrap(rs[k].request).headers =
                            [h \in DOMAIN Unwrap(s.config.headers) |->
                                resolve_variables(Unwrap(s.config.headers)[h],
                                                  RowBinding(rows, k))]

\* two rows, two results: the second sent name = R2 under X-Index: 1
C7_Witness ==
    /\ Done
    /\ \E s \in Elements(enabled_steps) :
          /\ s.name = "items"
          /\ Len(ResultsOf(s.id)) = 2
          /\ Unwrap(ResultsOf(s.id)[2].request).body = Some(JObj([name |-> JStr(T("R2"))]))
          /\ Unwrap(ResultsOf(s.id)[2].request).headers["X-Index"] = T("1")

\* a result of a request that was sent and got no response
IsTransportFailure(r) == IsSome(r.request) /\ IsNone(r.response)

\* C9: a transport failure gives a step result with status error, no
\* response and an error message, and every enabled step after it is still
\* executed.
C9_TransportFailureIsStepError ==
    /\ \A i \in DOMAIN results :
          IsTransportFailure(results[i]) =>
              /\ results[i].status = "error"
              /\ IsSome(results[i].error)
    /\ Done => \A s \in Elements(enabled_steps) :
                  Len(ResultsOf(s.id)) = ExpectedResults(s)

\* the first step met a transport failure, the second was executed
C9_Witness ==
    /\ Done
    /\ Len(enabled_steps) = 2
    /\ Len(results) >= 2
    /\ IsTransportFailure(results[1])
    /\ results[1].step_id = enabled_steps[1].id
    /\ results[Len(results)].step_id = enabled_steps[2].id

ExtractedIn(r) ==
    IF IsSome(r.extracted_variables) THEN Unwrap(r.extracted_variables) ELSE EmptyMap

\* the names extracted by the results before the j-th
ExtractedBefore(j) ==
    UNION { DOMAIN ExtractedIn(results[i]) : i \in 1..(j - 1) }

\* the value the latest of them extracted under the name n
LatestBefore(j, n) ==
    LET I == { i \in 1..(j - 1) : n \in DOMAIN ExtractedIn(results[i]) }
        last == CHOOSE i \in I : \A o \in I : o <= i
    IN  ExtractedIn(results[last])[n]

\* a step is about to be interpolated
StepAhead ==
    \/ pc = "loop" /\ index < Len(enabled_steps)
    \/ pc = "rows" /\ csv_index < Len(Unwrap(csv_records))

\* the map it will be interpolated with
NextMap ==
    IF pc = "rows"
    THEN MapInsert(MapInsert(variables, "item",
                             ItemObject(Unwrap(csv_records)[csv_index + 1])),
                   "index", JNum(csv_index))
    ELSE variables

\* the variables a text names
Roots(text) == { text[t].ph[1] : t \in { t \in DOMAIN text : IsPlaceholder(text[t]) } }

EnabledStepOf(r) == CHOOSE s \in Elements(enabled_steps) : s.id = r.step_id

\* C6 as stated: a variable extracted by a request step is in the map, with
\* the extracted value, when every later step is interpolated, and the
\* headers of the later steps are resolved with it.
C6_ExtractedSeenByLaterSteps ==
    /\ StepAhead =>
          \A n \in ExtractedBefore(Len(results) + 1) :
              /\ n \in DOMAIN NextMap
              /\ NextMap[n] = LatestBefore(Len(results) + 1, n)
    /\ \A j \in DOMAIN results :
          LET config == EnabledStepOf(results[j]).config IN
          (IsSome(results[j].request) /\ IsSome(config.headers)) =>
              \A h \in DOMAIN Unwrap(config.headers) :
                  LET text == Unwrap(config.headers)[h] IN
                  (Roots(text) # {} /\ Roots(text) \subseteq ExtractedBefore(j)) =>
                      Unwrap(results[j].request).headers[h] =
                          resolve_variables(text, [n \in Roots(text) |-> LatestBefore(j, n)])

IsExpanded(s) == IsSome(CsvCheck(s, csv_file, None).records)

\* the positions of the CSV-expanded steps whose rows are all done
ExpansionsDone ==
    { p \in 1..index : IsExpanded(enabled_steps[p]) }

LastExpansion == CHOOSE p \in ExpansionsDone : \A o \in ExpansionsDone : o <= p

\* the names the steps after position p have extracted so far
ExtractedAfter(p) ==
    UNION { DOMAIN ExtractedIn(results[i]) :
              i \in { i \in DOMAIN results :
                        \E q \in (p + 1)..Len(enabled_steps) :
                            enabled_steps[q].id = results[i].step_id } }

BetweenSteps == pc \in {"loop", "done"}

\* C8 as stated: once a CSV-expanded step has run all its rows the map has
\* neither item nor index, while every later step executes and in the final
\* snapshot.
C8_RowBindingsGone ==
    /\ (BetweenSteps /\ ExpansionsDone # {}) =>
          /\ "item" \notin DOMAIN variables
          /\ "index" \notin DOMAIN variables
    /\ (Done /\ ExpansionsDone # {}) =>
          /\ "item" \notin DOMAIN RunRecord.variables
          /\ "index" \notin DOMAIN RunRecord.variables

\* C8, amended: once a CSV-expanded step has run all its rows, item and
\* index are out of the map when the next step starts; each stays out, up to
\* the final snapshot, unless a later step puts a variable of that name in
\* again.
C8_RowBindingsRetracted ==
    (BetweenSteps /\ ExpansionsDone # {}) =>
        \A n \in {"item", "index"} :
            /\ n \in DOMAIN variables => n \in ExtractedAfter(LastExpansion)
            /\ index = LastExpansion => n \notin DOMAIN variables
            /\ (Done /\ n \in DOMAIN RunRecord.variables) => n \in ExtractedAfter(LastExpansion)

\* an expansion over two rows, then another step, and a final snapshot
\* without item and index
C8_Witness ==
    /\ Done
    /\ Len(enabled_steps) = 2
    /\ IsExpanded(enabled_steps[1])
    /\ Len(results) = 3
    /\ "item" \notin DOMAIN RunRecord.variables
    /\ "index" \notin DOMAIN RunRecord.variables

BadConfig(s) == s.step_type = "request" /\ ~s.config.valid
BadMethod(s) ==
    /\ s.step_type = "request"
    /\ s.config.valid
    /\ to_uppercase(s.config.method) \notin SupportedMethods
CsvMissing(s) ==
    /\ s.step_type = "request"
    /\ s.config.valid
    /\ IsSome(s.config.with_items_from_csv)
    /\ IsNone(csv_file)
InputError(s) == BadConfig(s) \/ BadMethod(s) \/ CsvMissing(s)

EventStep(id) == CHOOSE s \in Elements(steps) : id \in EventIds(s)

StartedAt == { i \in DOMAIN events : events[i].event = "step-started" }

\* the step-started event at j follows the one at i in scenario order: it
\* is of a step of greater step_order and opens it (the step itself or its
\* row 0), or it is the next row of the same step
FollowsInOrder(i, j) ==
    LET si == EventStep(events[i].step_id)
        sj == EventStep(events[j].step_id)
    IN  \/ /\ si.step_order < sj.step_order
           /\ events[j].step_id \in {sj.id, sj.id \o "-0"}
        \/ /\ si = sj
           /\ \E k \in 1..MaxRows :
                 /\ events[i].step_id = si.id \o "-" \o ToString(k - 1)
                 /\ events[j].step_id = si.id \o "-" \o ToString(k)

\* C11: the events of a scenario run come in this order: scenario-started
\* once and first; for every executed step in ascending step_order, and for
\* every CSV row of an expanded step in row order, a step-started followed by
\* its step-completed before any event of a later step; scenario-completed
\* once and last; all of them carry the same run_id.
C11_EventOrder ==
    LET n == Len(events) IN
    /\ pc # "ready" => n > 0 /\ events[1].event = "scenario-started"
    /\ \A i \in 2..n : events[i].event # "scenario-started"
    /\ \A i \in 1..n : events[i].run_id = events[1].run_id
    /\ \A i \in 1..n : events[i].event = "scenario-completed" => i = n /\ Done
    /\ Done => events[n].event = "scenario-completed"
    /\ \A i \in StartedAt :
          /\ i < n
          /\ events[i + 1].event = "step-completed"
          /\ events[i + 1].step_id = events[i].step_id
          /\ i = 2 => LET s == EventStep(events[i].step_id)
                      IN  events[i].step_id \in {s.id, s.id \o "-0"}
          /\ i + 2 \in StartedAt => FollowsInOrder(i, i + 2)
    /\ \A i \in 1..n :
          events[i].event = "step-completed" => i - 1 \in StartedAt
    /\ Done =>
          \A s \in Elements(FilterEnabled(steps)) :
              Cardinality({ i \in StartedAt : events[i].step_id \in EventIds(s) })
                  = ExpectedResults(s)

\* a finished run over a list handed in descending step_order, whose first
\* step by step_order was expanded over two rows and followed by another step
C11_Witness ==
    /\ Done
    /\ Len(steps) = 2 /\ steps[1].step_order > steps[2].step_order
    /\ Len(events) = 8
    /\ events[2].step_id = steps[2].id \o "-0"
    /\ events[4].step_id = steps[2].id \o "-1"
    /\ events[6].step_id = steps[1].id

CompletedAt == { i \in DOMAIN events : events[i].event = "step-completed" }

\* C12: the progress_percentage (completed_count / total_steps * 100) of
\* successive step-completed events of a scenario run never decreases, for
\* every step list, CSV-expanded steps included.
C12_ProgressNonDecreasing ==
    \A i, j \in CompletedAt :
        i < j => events[i].completed_count * events[j].total_steps
                     <= events[j].completed_count * events[i].total_steps

PerfDone == perf_pc = "done"
PerfRunRecord == Unwrap(perf_run)

\* example E5: the aggregates p95 = 450 ms, avg = 200 ms, error rate 0.02
\* and 120 requests per second, under four thresholds
E5Aggregates ==
    [total_requests |-> 100, failed_requests |-> 2, error_rate |-> Rat(2, 100),
     duration_min |-> 50, duration_max |-> 900, duration_avg |-> Rat(200, 1),
     duration_med |-> 150, duration_p90 |-> 400, duration_p95 |-> 450,
     duration_p99 |-> 800, requests_per_second |-> Rat(120, 1),
     iterations_completed |-> 50, total_duration_ms |-> 833]

E5Thresholds ==
    << [metric |-> "http_req_duration",
        condition |-> <<PctLex(95), OpLex("<"), NumLex(500, 1)>>],
       [metric |-> "http_req_duration",
        condition |-> <<WordLex("avg"), OpLex("<"), NumLex(100, 1)>>],
       [metric |-> "http_req_failed",
        condition |-> <<WordLex("rate"), OpLex("<"), NumLex(5, 100)>>],
       [metric |-> "rps", condition |-> <<OpLex(">"), NumLex(100, 1)>>] >>

E5Results ==
    [i \in DOMAIN E5Thresholds |-> evaluate_single_threshold(E5Thresholds[i], E5Aggregates)]

\* C13: the status of a finished load run is passed when every configured
\* threshold evaluated to pass (also when none is configured) and failed
\* otherwise: the record holds one result per configured threshold, each
\* passed exactly when its observed value meets its condition, and the status
\* follows them.  In E5 the second of four thresholds fails and the run is
\* failed.
C13_StatusByThresholds ==
    /\ PerfDone =>
          LET r == PerfRunRecord IN
          /\ Len(r.threshold_results) = Len(perf_config.thresholds)
          /\ \A i \in DOMAIN r.threshold_results :
                /\ r.threshold_results[i].threshold = perf_config.thresholds[i]
                /\ r.threshold_results[i].passed =
                       parse_numeric_condition(perf_config.thresholds[i].condition,
                                               r.threshold_results[i].actual_value)
          /\ r.status =
                IF \A i \in DOMAIN r.threshold_results : r.threshold_results[i].passed
                THEN "passed" ELSE "failed"
    /\ [i \in DOMAIN E5Results |-> E5Results[i].passed] = <<TRUE, FALSE, TRUE, TRUE>>
    /\ PerfRunStatus(E5Results) = "failed"

\* a finished run that is failed by one of its two thresholds: half of the
\* requests or more failed, while the 95th percentile is below 500 ms
C13_Witness ==
    /\ PerfDone
    /\ PerfRunRecord.status = "failed"
    /\ Len(PerfRunRecord.threshold_results) = 2
    /\ ~PerfRunRecord.threshold_results[1].passed
    /\ PerfRunRecord.threshold_results[2].passed
    /\ Unwrap(PerfRunRecord.metrics).total_requests > 0

PerfCompletedAt == { i \in DOMAIN perf_events : perf_events[i].event = "perf-completed" }

\* the load run has ended: the manager has left its loop and set stop, every
\* VU and the reporter have exited, run() has returned its record, and
\* perf-completed was sent once, as the last event
PerfTerminated ==
    /\ PerfDone
    /\ stop_signal
    /\ manager.pc = "done"
    /\ reporter.pc = "exited"
    /\ \A w \in DOMAIN vus : vus[w].pc = "exited"
    /\ IsSome(perf_run)
    /\ PerfCompletedAt = {Len(perf_events)}

\* C14: every load run over a stage list of finite total duration
\* terminates: in the end, and for good, the manager has left its loop and
\* set stop, every worker and the reporter have exited, and run() has
\* returned a run record after sending perf-completed exactly once.
C14_LoadRunTerminates == <>[]PerfTerminated

\* a terminated run of two VUs whose manager left the loop by the iteration
\* cap, before the stages were over
C14_Witness ==
    /\ PerfTerminated
    /\ Len(vus) = 2
    /\ ~is_completed(perf_config.stages, elapsed)
    /\ iteration_counter > 0

\* C15: when an iterations cap N is configured, the global iteration
\* counter never exceeds N at any point of a load run, for any number of
\* concurrently running workers.
C15_CounterWithinCap ==
    IsSome(perf_config.iterations) => iteration_counter <= Unwrap(perf_config.iterations)

\* VU w has had an answer to its login
VuLoggedIn(w) ==
    \E i \in DOMAIN metrics :
        metrics[i].vu_id = w - 1 /\ metrics[i].step_name = "login" /\ metrics[i].status # 0

\* the answer behind a metric of status 200
AnswerOf(metric) == CHOOSE r \in PerfResponses : r.ok /\ r.status = metric.status

RECURSIVE VuOwnVars(_, _)
\* the map of VU w as its own exchanges alone make it: the scenario's
\* initial variables, then, for each of the first n metrics that is an
\* answered exchange of w, what the step's extractors took from the answer
VuOwnVars(w, n) ==
    IF n = 0 THEN prepare_scenario_variables(scenario_variables, base_url)
    ELSE LET m == metrics[n]
             before == VuOwnVars(w, n - 1)
             extractors == Catalogue[m.step_name].config.extract_variables
         IN  IF m.vu_id = w - 1 /\ m.status # 0 /\ IsSome(extractors)
             THEN PerfExtractInto(before, Unwrap(extractors), AnswerOf(m))
             ELSE before

\* C16: each worker's variable map depends only on the scenario's initial
\* variables and on that worker's own earlier responses: a value extracted
\* by one worker never appears in another worker's map or requests, while
\* it is visible to the later steps and later iterations of the same worker.
C16_VuLocalVariables ==
    \A w \in DOMAIN vus :
        /\ vus[w].local_vars = VuOwnVars(w, Len(metrics))
        /\ "tok" \in DOMAIN vus[w].local_vars <=> VuLoggedIn(w)
        /\ IsSome(vus[w].request) =>
               vus[w].request = Some(PerfRequest(perf_enabled[vus[w].pos],
                                                 VuOwnVars(w, Len(metrics)), base_url))

\* the first VU has logged in and sends its token with the next step, while
\* the second VU, which has not logged in, has no token
C16_Witness ==
    /\ Len(vus) = 2
    /\ "tok" \in DOMAIN vus[1].local_vars
    /\ "tok" \notin DOMAIN vus[2].local_vars
    /\ vus[2].iteration > 0
    /\ IsSome(vus[1].request)
    /\ Unwrap(vus[1].request).headers =
           [h \in {"Authorization"} |-> <<L("Bearer "), L("T")>>]

\* A load run over a step list that is not in ascending step_order:
\* run_performance_test is a public function of the crate and takes the
\* list as its caller has it.  (The command of the application hands it the
\* list as the database returns it, in ascending step_order: PerfStepLists.)
PerfStepListsUnsorted ==
    { [i \in 1..MaxSteps |->
          [id |-> StepId(i), step_order |-> MaxSteps - i,
           step_type |-> Catalogue[names[i]].step_type, name |-> names[i],
           config |-> Catalogue[names[i]].config, enabled |-> en[i]]] :
      names \in Injections(1..MaxSteps, PerfStepNames), en \in [1..MaxSteps -> BOOLEAN] }

InitPerfUnsorted ==
    /\ perf_pc = "ready"
    /\ perf_steps \in PerfStepListsUnsorted
    /\ perf_config \in PerfConfigs
    /\ perf_enabled = <<>>
    /\ elapsed = 0
    /\ stop_signal = FALSE
    /\ current_vus = 0
    /\ max_vus_reached = 0
    /\ iteration_counter = 0
    /\ manager = [pc |-> "idle", to_spawn |-> 0, next_vu_id |-> 0]
    /\ vus = <<>>
    /\ metrics = <<>>
    /\ reporter = [pc |-> "idle", last_stage_index |-> None]
    /\ perf_events = <<>>
    /\ final_metrics = None
    /\ perf_run = None
    /\ ScenarioIdle
    /\ UnitsIdle
SpecPerfUnsorted == InitPerfUnsorted /\ [][NextPerf]_vars

\* the step of the list a metric was recorded for
MetricStep(metric) == CHOOSE s \in Elements(perf_steps) : s.id = metric.step_id

\* C17: in every iteration of every worker, requests are issued and metrics
\* recorded for exactly the enabled steps of type request, in ascending
\* step_order, whatever the order of the step list handed to the
\* performance executor; delay, script, condition and loop steps produce no
\* request and no metric.
C17_RequestsInStepOrder ==
    /\ \A i \in DOMAIN metrics :
           MetricStep(metrics[i]).enabled /\ MetricStep(metrics[i]).step_type = "request"
    /\ \A w \in DOMAIN vus :
           IsSome(vus[w].request) => perf_enabled[vus[w].pos].step_type = "request"
    /\ \A i, j \in DOMAIN metrics :
           (i < j /\ metrics[i].vu_id = metrics[j].vu_id
                  /\ metrics[i].iteration = metrics[j].iteration)
               => MetricStep(metrics[i]).step_order < MetricStep(metrics[j]).step_order

\* when stage i of the list begins and ends, in seconds, and the target of
\* the stage before it
StageStart(stages, i) == SumDurations(SubSeq(stages, 1, i - 1))
StageEnd(stages, i) == SumDurations(SubSeq(stages, 1, i))
TargetBefore(stages, i) == IF i = 1 THEN 0 ELSE stages[i - 1].target_vus

\* the readings of get_current_vus follow the ramp of stage i: the stage
\* begins at the target before it, ends at its own, and between two seconds
\* of it the reading does not move away from its target
FollowsRamp(i) ==
    LET stages == scheduler.stages
        t == scheduler.elapsed
    IN  /\ t = StageStart(stages, i) => scheduler.vus = TargetBefore(stages, i)
        /\ t = StageEnd(stages, i) => scheduler.vus = stages[i].target_vus
        /\ (t >= 1 /\ StageStart(stages, i) <= t - 1 /\ t <= StageEnd(stages, i)) =>
               /\ stages[i].target_vus > TargetBefore(stages, i) =>
                      Unwrap(scheduler.vus_before) <= scheduler.vus
               /\ stages[i].target_vus < TargetBefore(stages, i) =>
                      Unwrap(scheduler.vus_before) >= scheduler.vus

\* C18 as stated: for every stage list, get_current_vus as a function of
\* elapsed seconds is monotone within each stage (non-decreasing when the
\* stage's target is above the previous target, non-increasing when below),
\* starts each stage at the previous stage's target (0 before the first
\* stage), and equals the stage's declared target_vus at the instant the
\* stage ends.
C18_RampOfEveryStageList ==
    \A i \in DOMAIN scheduler.stages : FollowsRamp(i)

\* C18, amended: the same for every stage list whose stages all last at
\* least one second.  (A stage of no duration begins and ends at the same
\* instant, where get_current_vus has one value only.)
C18_RampOfLastingStages ==
    (\A i \in DOMAIN scheduler.stages : scheduler.stages[i].duration_secs > 0)
        => \A i \in DOMAIN scheduler.stages : FollowsRamp(i)

\* half way down a stage of two seconds from 3 VUs to none, after a stage
\* that went up to 3: the reading is rounded to 2
C18_Witness ==
    /\ Len(scheduler.stages) = 3
    /\ \A i \in DOMAIN scheduler.stages : scheduler.stages[i].duration_secs = 2
    /\ scheduler.stages[1].target_vus = 3
    /\ scheduler.stages[2].target_vus = 0
    /\ scheduler.elapsed = 3
    /\ scheduler.vus_before = Some(3)
    /\ scheduler.vus = 2

\* C19: with stages [(10 s, 10), (10 s, 10), (10 s, 0)], get_current_vus
\* returns 0 at t=0, 5 at t=5 s, 10 at t=10 s, 10 at t=15 s, 5 at t=25 s and
\* 0 for every t >= 30 s.
C19_ExampleReadings ==
    scheduler.stages = ExampleStages =>
        /\ scheduler.elapsed = 0 => scheduler.vus = 0
        /\ scheduler.elapsed = 5 => scheduler.vus = 5
        /\ scheduler.elapsed = 10 => scheduler.vus = 10
        /\ scheduler.elapsed = 15 => scheduler.vus = 10
        /\ scheduler.elapsed = 25 => scheduler.vus = 5
        /\ scheduler.elapsed >= 30 => scheduler.vus = 0

\* the example's scheduler half way down its last stage
C19_Witness ==
    /\ scheduler.stages = ExampleStages
    /\ scheduler.elapsed = 25
    /\ scheduler.vus = 5
    /\ scheduler.vus_before = Some(6)

\* C20: when a poller repeatedly calls check_stage_transition with the
\* index it last received (initially none), every stage index it observes
\* as active is reported exactly once, in increasing order, a poll inside
\* the same stage reports nothing, and nothing is reported once the last
\* stage has ended.
C20_EachStageReportedOnce ==
    /\ \A i, j \in DOMAIN scheduler.reported :
           i < j => scheduler.reported[i] < scheduler.reported[j]
    /\ Elements(scheduler.reported) = scheduler.observed
    /\ IsSome(scheduler.poll) =>
           LET poll == Unwrap(scheduler.poll)
           IN  /\ poll.current = poll.last_stage_index => IsNone(poll.got)
               /\ is_completed(scheduler.stages, poll.elapsed) => IsNone(poll.got)

\* a poller that saw each of three stages and polled twice more within a
\* second after the end of the last
C20_Witness ==
    /\ scheduler.reported = <<0, 1, 2>>
    /\ IsSome(scheduler.poll)
    /\ is_completed(scheduler.stages, Unwrap(scheduler.poll).elapsed)
    /\ Unwrap(scheduler.poll).last_stage_index = Some(2)
    /\ scheduler.polls = MaxPolls

(* ============ claims about the metrics collector (C21 ...) ============= *)
AggregateCalls ==
    { i \in DOMAIN collector.calls : collector.calls[i].op = "calculate_aggregates" }

\* the order the figures of one breakdown stand in
FiguresInOrder(m) ==
    /\ m.duration_med <= m.duration_p90
    /\ m.duration_p90 <= m.duration_p95
    /\ m.duration_p95 <= m.duration_p99
    /\ m.duration_p99 <= m.duration_max
    /\ ~RatLess(m.duration_avg, Rat(m.duration_min, 1))
    /\ ~RatLess(Rat(m.duration_max, 1), m.duration_avg)

\* C21: whenever calculate_aggregates is called on a collector that holds at
\* least one metric, the figures it returns satisfy p50 <= p90 <= p95 <= p99
\* <= max and min <= avg <= max, for all metrics together and in the
\* breakdown of every step that has a metric.
C21_FiguresInOrder ==
    \A i \in AggregateCalls :
        LET m == collector.calls[i].got IN
        collector.metrics # <<>> =>
            /\ FiguresInOrder(m)
            /\ DOMAIN m.step_metrics = { collector.metrics[k].step_id :
                                           k \in DOMAIN collector.metrics }
            /\ \A st \in DOMAIN m.step_metrics : FiguresInOrder(m.step_metrics[st])

\* aggregates of three metrics of two steps, recorded slow first, whose
\* median is below their maximum
C21_Witness ==
    \E i \in AggregateCalls :
        LET m == collector.calls[i].got IN
        /\ Len(collector.metrics) = 3
        /\ collector.metrics[1].duration_ms > collector.metrics[2].duration_ms
        /\ Cardinality(DOMAIN m.step_metrics) = 2
        /\ m.duration_min < m.duration_max
        /\ \E st \in DOMAIN m.step_metrics :
               m.step_metrics[st].duration_min < m.step_metrics[st].duration_max

PercentileCalls == { i \in DOMAIN collector.calls : collector.calls[i].op = "percentile" }

\* the index nearest to p / 100 * (n - 1), the upper one of two equally near,
\* and at most n - 1: 100 * k - 50 <= p * (n - 1) < 100 * k + 50
NearestIndex(n, p) ==
    LET near == { k \in 0..(n - 1) : 100 * k - 50 <= p * (n - 1) /\ p * (n - 1) < 100 * k + 50 }
    IN  IF near = {} THEN n - 1 ELSE CHOOSE k \in near : TRUE

C23_TestPercentileValues ==
    \A i \in PercentileCalls :
        LET made == collector.calls[i] IN
        SortedDurations(collector.metrics) = TenDurations =>
            /\ made.p = 50 => made.got = 5
            /\ made.p = 90 => made.got = 9
            /\ made.p = 95 => made.got = 10

EvaluateCalls ==
    { i \in DOMAIN collector.calls : collector.calls[i].op = "evaluate_thresholds" }

\* what a result says of its threshold: the pass flag and the observed value
Verdict(threshold_result) ==
    [passed |-> threshold_result.passed, actual_value |-> threshold_result.actual_value]

\* C24: threshold evaluation is a pure function of (thresholds, aggregates):
\* two evaluations of the same threshold list against a collector holding the
\* same recorded metrics give identical pass flags and observed values,
\* whatever the time at which each evaluation is made.
C24_SameVerdictsAtAnyTime ==
    \A i, j \in EvaluateCalls :
        collector.calls[i].thresholds = collector.calls[j].thresholds =>
            [k \in DOMAIN collector.calls[i].got |-> Verdict(collector.calls[i].got[k])]
                = [k \in DOMAIN collector.calls[j].got |-> Verdict(collector.calls[j].got[k])]

ThroughputMetrics == {"rps", "requests_per_second"}

\* a step that is a made of evaluate_thresholds
EvaluateStep ==
    /\ Len(collector'.calls) = Len(collector.calls) + 1
    /\ collector'.calls[Len(collector'.calls)].op = "evaluate_thresholds"

\* C24 as it holds: a made of evaluate_thresholds changes nothing in the
\* collector and returns one result per threshold, in order; two evaluations
\* of the same list against the same recorded metrics agree on the pass flag
\* and the observed value of every threshold whose metric is not the
\* throughput (rps, requests_per_second), and on those too when made at the
\* same reading of the clock.
C24_SameVerdictsButThroughput ==
    [][ EvaluateStep =>
          LET made == collector'.calls[Len(collector'.calls)] IN
          /\ collector'.metrics = collector.metrics
          /\ collector'.now = collector.now
          /\ SubSeq(collector'.calls, 1, Len(collector.calls)) = collector.calls
          /\ DOMAIN made.got = DOMAIN made.thresholds
          /\ \A k \in DOMAIN made.got : made.got[k].threshold = made.thresholds[k]
          /\ \A i \in EvaluateCalls :
                collector.calls[i].thresholds = made.thresholds =>
                    \A k \in DOMAIN made.thresholds :
                        \/ /\ made.thresholds[k].metric \in ThroughputMetrics
                           /\ collector.calls[i].at # made.at
                        \/ Verdict(collector.calls[i].got[k]) = Verdict(made.got[k])
      ]_vars

\* the same list evaluated at two readings of the clock: the throughput
\* threshold passes at the later one only, the others are judged alike
C24_Witness ==
    /\ collector.metrics # <<>>
    /\ Len(collector.calls) = 2
    /\ EvaluateCalls = {1, 2}
    /\ collector.calls[1].thresholds = OtherThresholds
    /\ collector.calls[2].thresholds = OtherThresholds
    /\ collector.calls[1].at < collector.calls[2].at
    /\ ~collector.calls[1].got[2].passed
    /\ collector.calls[2].got[2].passed
    /\ Verdict(collector.calls[1].got[1]) = Verdict(collector.calls[2].got[1])

\* OP applied to an observed value and the V of a condition
DslHolds(actual, op, v) ==
    CASE op = "<" -> actual.num * v.den < v.num * actual.den
      [] op = "<=" -> actual.num * v.den <= v.num * actual.den
      [] op = ">" -> actual.num * v.den > v.num * actual.den
      [] op = ">=" -> actual.num * v.den >= v.num * actual.den
      [] op = "==" -> actual.num * v.den = v.num * actual.den
      [] op = "!=" -> actual.num * v.den # v.num * actual.den

\* what a condition of the DSL observes of the metrics ms at the time at
DslObserved(threshold, ms, at) ==
    LET cond == threshold.condition
        sorted_data == SortedDurations(ms)
        m == calculate_aggregates(ms, at)
    IN  CASE threshold.metric \in {"http_req_duration", "duration"} /\ cond[1].lex = "p" ->
                 Rat(percentile(sorted_data, cond[1].n), 1)
          [] threshold.metric \in {"http_req_duration", "duration"} /\ cond[1].lex = "word" ->
                 ( CASE cond[1].w = "avg" -> m.duration_avg
                     [] cond[1].w = "max" -> Rat(m.duration_max, 1)
                     [] cond[1].w = "min" -> Rat(m.duration_min, 1)
                     [] cond[1].w = "med" -> Rat(m.duration_med, 1) )
          [] threshold.metric = "http_req_failed" -> m.error_rate
          [] threshold.metric = "rps" -> m.requests_per_second
          [] threshold.metric = "iterations" -> Rat(m.iterations_completed, 1)

DslMetrics == {"http_req_duration", "duration", "http_req_failed", "rps", "iterations"}

\* C25: threshold conditions are evaluated as the DSL defines.  On the
\* duration metric `p(NN) OP V` compares the NN-th percentile of the recorded
\* durations with V, for every NN and every OP of <, <=, >, >=, ==, !=, and
\* `avg|max|min|med OP V` compares that statistic; on the error-rate metric
\* `rate OP V` compares the error rate; otherwise `OP V` compares the resolved
\* metric.  In E5, p(95)<500 passes with 450 observed, avg<100 fails with 200
\* observed and rps >100 passes with 120 observed.
C25_ConditionsAsDsl ==
    /\ \A i \in EvaluateCalls :
          LET made == collector.calls[i] IN
          \A k \in DOMAIN made.thresholds :
              LET threshold == made.thresholds[k]
                  cond == threshold.condition
                  observed == DslObserved(threshold, collector.metrics, made.at)
              IN  threshold.metric \in DslMetrics =>
                      /\ RatEq(made.got[k].actual_value, observed)
                      /\ made.got[k].passed =
                             DslHolds(observed, cond[Len(cond) - 1].op,
                                      Rat(cond[Len(cond)].num, cond[Len(cond)].den))
    /\ E5Results[1].passed /\ RatEq(E5Results[1].actual_value, Rat(450, 1))
    /\ ~E5Results[2].passed /\ RatEq(E5Results[2].actual_value, Rat(200, 1))
    /\ E5Results[4].passed /\ RatEq(E5Results[4].actual_value, Rat(120, 1))

(* ================ claims about single functions (C26 ...) ============== *)
\* a number as greaterThan and lessThan read it: 0 for what is no number
NumberOf(v) == IF v.k = "num" THEN v.n ELSE 0

\* the place an assertion looks at holds a value in the response, and not null
Present(assertion, response) ==
    CASE assertion.source \in {"status", "duration"} -> TRUE
      [] assertion.source = "header" ->
            /\ IsSome(assertion.header)
            /\ Unwrap(assertion.header) \in DOMAIN response.headers
      [] assertion.source = "body" /\ IsNone(assertion.path) -> response.body # JNull
      [] assertion.source = "body" /\ IsSome(assertion.path) ->
            LET key == Unwrap(assertion.path)[1].key
            IN  /\ response.body.k = "obj"
                /\ key \in DOMAIN response.body.o
                /\ response.body.o[key] # JNull
      [] OTHER -> FALSE

\* C26: assertion operators follow the table.  equals and notEquals are
\* structural equality and its negation; greaterThan and lessThan are strict
\* comparisons of numbers, an operand that is no number counting as 0; exists
\* passes exactly when the observed value is present and not null; an operator
\* name outside the seven fails with a diagnostic that names it; a diagnostic
\* is given exactly when the assertion fails.  For E3 (status 200, body
\* {"x": 5}) exactly `status equals 200` and `x greaterThan 4` pass, and the
\* step is failed.
C26_OperatorTable ==
    /\ call.fn = "evaluate_assertion" /\ IsSome(call.got) =>
          LET a == call.assertion
              r == Unwrap(call.got)
              actual == Unwrap(r.actual)
              passed == Unwrap(r.passed)
          IN  /\ a.operator = "equals" => (passed <=> actual = a.expected)
              /\ a.operator = "notEquals" => (passed <=> actual # a.expected)
              /\ a.operator = "greaterThan" =>
                    (passed <=> NumberOf(actual) > NumberOf(a.expected))
              /\ a.operator = "lessThan" =>
                    (passed <=> NumberOf(actual) < NumberOf(a.expected))
              /\ a.operator = "exists" => (passed <=> Present(a, call.response))
              /\ a.operator \notin KnownOperators =>
                    ~passed /\ r.error = Some("Unknown operator: " \o a.operator)
              /\ passed <=> IsNone(r.error)
    /\ [i \in DOMAIN E3Evaluated |-> E3Evaluated[i].passed]
           = <<Some(TRUE), Some(TRUE), Some(FALSE), Some(FALSE)>>
    /\ E3StepStatus = "failed"

\* lessThan 4 passes on the string "5", which counts as 0
C26_Witness ==
    /\ call.fn = "evaluate_assertion"
    /\ IsSome(call.got)
    /\ call.assertion.operator = "lessThan"
    /\ call.assertion.expected = JNum(4)
    /\ Unwrap(call.got).actual = Some(JStr(T("5")))
    /\ Unwrap(call.got).passed = Some(TRUE)

\* C27: for every JSON value and every path string, malformed segments such
\* as an unclosed '[' or a non-numeric index included, extract_json_path
\* returns without panicking: the addressed value, or nothing.
C27_PathNeverPanics ==
    call.fn = "extract_json_path" /\ IsSome(call.got) =>
        /\ ~Unwrap(call.got).panicked
        /\ Len(Unwrap(call.got).value) <= 1

\* C28: scenario mode and load mode resolve a step URL to the same string for
\* every URL and every project base URL, also when none is set: an absolute
\* URL is used as given, a URL beginning with '/' is joined to the base URL
\* (http://localhost:8080 when none is set) trimmed of trailing slashes, and
\* any other URL is used verbatim.
C28_SameUrlInBothModes ==
    call.fn = "resolve_url" /\ IsSome(call.scenario) /\ IsSome(call.load) =>
        LET base == IF IsSome(call.base_url) THEN Unwrap(call.base_url)
                    ELSE <<L("http://"), L("localhost:8080")>>
            expected ==
                IF Len(call.url) > 0 /\ call.url[1] \in {L("http://"), L("https://")}
                THEN call.url
                ELSE IF Len(call.url) > 0 /\ call.url[1] = L("/")
                     THEN TrimEndMatches(base, "/") \o call.url
                     ELSE call.url
        IN  /\ call.scenario = Some(expected)
            /\ call.load = Some(expected)

(* =============== claims about scenario documents (C29 ...) ============= *)
\* a step without the identities it was given
StepButIdentities(step) ==
    [step_order |-> step.step_order, step_type |-> step.step_type, name |-> step.name,
     config |-> step.config, enabled |-> step.enabled]

\* an imported scenario and its steps without ids and timestamps
ButIdentities(imported) ==
    [name |-> imported.scenario.name, description |-> imported.scenario.description,
     priority |-> imported.scenario.priority, variables |-> imported.scenario.variables,
     pre_script |-> imported.scenario.pre_script,
     post_script |-> imported.scenario.post_script,
     project_id |-> imported.scenario.project_id,
     steps |-> [i \in DOMAIN imported.steps |-> StepButIdentities(imported.steps[i])]]

\* C29: for every well-formed scenario document x, with optional keys
\* present or absent, extractor and assertion lists empty or not, and any step
\* type, parse(serialize(parse(x))) equals parse(x) in the scenario fields and
\* in the step list (type, config, extractors, assertions, CSV descriptor,
\* enabled flag), but for the assigned identities.
C29_RoundTrip ==
    call.fn = "yaml" /\ IsSome(call.imported) /\ IsSome(call.exported) =>
        /\ parse_scenario_yaml(Unwrap(call.exported)).ok
        /\ IsSome(call.reimported) =>
               ButIdentities(Unwrap(call.reimported)) = ButIdentities(Unwrap(call.imported))

\* C30: when the first typed parse of a scenario YAML fails and the typed
\* parse of the normalized text fails too, parse_scenario_yaml returns the
\* error of the first parse, not the error of the retry.
C30_OriginalErrorReturned ==
    call.fn = "yaml" /\ IsSome(call.parsed) =>
        LET first == from_str_ScenarioYaml(call.text)
            corrected == auto_correct_yaml(call.text)
        IN  ~first.ok /\ corrected.ok /\ ~from_str_ScenarioYaml(corrected.value).ok =>
                /\ ~Unwrap(call.parsed).ok
                /\ Unwrap(call.parsed).error.cause = first.error

(* ================ claims about the steps table (C31) =================== *)
\* the step_order values of the rows of a scenario are 0..n-1, each once
DenseOrder(rows, scenario_id) ==
    /\ \A a, b \in RowsOf(rows, scenario_id) :
           a # b => rows[a].step_order # rows[b].step_order
    /\ { rows[id].step_order : id \in RowsOf(rows, scenario_id) }
           = 0..(Cardinality(RowsOf(rows, scenario_id)) - 1)

\* C31: after any reorder operation, whatever list of step ids it was given
\* and whatever steps were added and deleted before, the steps of the scenario
\* have pairwise distinct step_order values that are exactly 0..n-1.
C31_DenseAfterReorder ==
    database.last.op = "reorder"
        => DenseOrder(database.rows, database.last.scenario_id)

(* ================= claims about the scanners (C32) ===================== *)
\* the last endpoint of a list that has the key of e
LastOfKey(endpoints, e) ==
    endpoints[CHOOSE i \in DOMAIN endpoints :
                 /\ EndpointKey(endpoints[i]) = EndpointKey(e)
                 /\ \A j \in DOMAIN endpoints :
                        EndpointKey(endpoints[j]) = EndpointKey(e) => j <= i]

\* C32: deduplication in both scanner dialects keeps exactly one record per
\* (method, path) key, and of several scanned records with the same key the
\* one kept is the last one encountered.
C32_LastWriteWins ==
    (call.fn = "deduplicate" /\ IsSome(call.unique)) =>
        LET endpoints == call.endpoints
            unique == Unwrap(call.unique)
        IN  /\ \A i, j \in DOMAIN unique :
                   EndpointKey(unique[i]) = EndpointKey(unique[j]) => i = j
            /\ \A i \in DOMAIN endpoints : \E j \in DOMAIN unique :
                   unique[j] = LastOfKey(endpoints, endpoints[i])
            /\ \A j \in DOMAIN unique : \E i \in DOMAIN endpoints :
                   unique[j] = LastOfKey(endpoints, endpoints[i])

(* ============ claims about condition and loop steps (C33) ============== *)
NoopTypes == {"condition", "loop"}

\* execute_scenario is about to execute a condition or loop step
NoopStepNext ==
    /\ pc = "loop"
    /\ index < Len(enabled_steps)
    /\ CurrentStep.step_type \in NoopTypes

\* C33: executing a condition or loop step always yields a step result with
\* status passed, never makes the run failed (the failure count and the error
\* message stay as they were, and a run of such steps only ends passed), and
\* leaves the variable map unchanged.
C33_NoopStepsPassAndKeepVariables ==
    /\ [][(NoopStepNext /\ index' = index + 1) =>
             /\ Len(results') = Len(results) + 1
             /\ results'[Len(results')].step_id = CurrentStep.id
             /\ results'[Len(results')].status = "passed"
             /\ passed_steps' = passed_steps + 1
             /\ failed_steps' = failed_steps
             /\ error_message' = error_message
             /\ variables' = variables]_vars
    /\ [](Done /\ (\A i \in DOMAIN results : results[i].step_type \in NoopTypes)
             => RunRecord.status = "passed")

\* a loop step was executed after a step had extracted variables, and the
\* run ended passed with the extracted variable still bound
C33_Witness ==
    /\ Done
    /\ Len(results) = 2
    /\ results[1].step_type = "request" /\ IsSome(results[1].extracted_variables)
    /\ results[2].step_type = "loop" /\ results[2].status = "passed"
    /\ "tok" \in DOMAIN variables
    /\ RunRecord.status = "passed"

(* ================ claims about the VU tasks (C34 ...) ================== *)
\* the VU w goes from its step loop back to the head of its loop
EndsIteration(w) == vus[w].pc = "steps" /\ vus'[w].pc = "head"

\* every request step of the iteration the VU w is in has its metric recorded
AllStepsRecorded(w) ==
    \A i \in DOMAIN perf_enabled :
        perf_enabled[i].step_type = "request" =>
            \E k \in DOMAIN metrics :
                /\ metrics[k].step_id = perf_enabled[i].id
                /\ metrics[k].vu_id = w - 1
                /\ metrics[k].iteration = vus[w].iteration

\* C34: a worker increments the global iteration counter for an iteration
\* only after every enabled request step of that iteration has been issued
\* and its metric recorded; an iteration cut short by the stop flag is not
\* counted.
C34_OnlyWholeIterationsCounted ==
    [][iteration_counter' # iteration_counter =>
          \E w \in DOMAIN vus : EndsIteration(w) /\ AllStepsRecorded(w)]_vars

\* the requests the VU w may still start without passing another stop check:
\* the one of the step it is committed to
PendingRequests(w) == IF vus[w].pc = "committed" THEN 1 ELSE 0

\* the iterations the VU w may still begin without passing another stop check
PendingIterations(w) == IF vus[w].pc = "limit" THEN 1 ELSE 0

\* the VU w hands a request step to execute_request_step
StartsRequest(w) == vus[w].pc = "committed" /\ vus'[w].pc # "committed"

\* the VU w begins an iteration
StartsIteration(w) == vus'[w].iteration # vus[w].iteration

\* with the stop flag set, a request is started only by a VU that was
\* committed to it, which uses the commitment up, and no VU commits anew
OneFurtherRequest(w) ==
    /\ StartsRequest(w) => PendingRequests(w) = 1
    /\ vus'[w].pc = "committed" => vus[w].pc = "committed"

\* C35 as stated: once the stop flag is set, each worker starts at most one
\* further request, the one it had committed to after its last flag check,
\* and starts no new iteration.
C35_NoNewIterationAfterStop ==
    [][stop_signal => \A w \in DOMAIN vus :
          OneFurtherRequest(w) /\ ~StartsIteration(w)]_vars

\* C35 amended: once the stop flag is set, each worker starts at most one
\* further request, the one it had committed to after its last flag check,
\* and begins at most one further iteration, the one it was about to begin
\* after reading the flag unset at the head of its loop; no worker passes a
\* stop check any more.
C35_OneFurtherRequestAndIteration ==
    [][stop_signal => \A w \in DOMAIN vus :
          /\ OneFurtherRequest(w)
          /\ StartsIteration(w) => PendingIterations(w) = 1
          /\ vus'[w].pc = "limit" => vus[w].pc = "limit"]_vars

\* the stop flag is set while one worker is committed to a request it has
\* not sent yet
C35_Witness ==
    /\ stop_signal
    /\ \E w \in DOMAIN vus : PendingRequests(w) = 1

(* ============= claims about the VU manager (C36 ...) ================== *)
\* a load run whose target drops while VUs are running: up to two VUs in
\* the first second, back to none over the next two, without a cap on the
\* iterations.  The scheduler asks for 0, 2, 1 VUs at 0, 1, 2 s.
RampDownConfig ==
    [stages |-> << [duration_secs |-> 1, target_vus |-> 2],
                   [duration_secs |-> 2, target_vus |-> 0] >>,
     iterations |-> None, thresholds |-> <<>>]

\* the step lists of the run: every step enabled
EnabledStepLists ==
    { list \in PerfStepLists : \A i \in DOMAIN list : list[i].enabled }

InitPerfRampDown ==
    /\ perf_pc = "ready"
    /\ perf_steps \in EnabledStepLists
    /\ perf_config = RampDownConfig
    /\ perf_enabled = <<>>
    /\ elapsed = 0
    /\ stop_signal = FALSE
    /\ current_vus = 0
    /\ max_vus_reached = 0
    /\ iteration_counter = 0
    /\ manager = [pc |-> "idle", to_spawn |-> 0, next_vu_id |-> 0]
    /\ vus = <<>>
    /\ metrics = <<>>
    /\ reporter = [pc |-> "idle", last_stage_index |-> None]
    /\ perf_events = <<>>
    /\ final_metrics = None
    /\ perf_run = None
    /\ ScenarioIdle
    /\ UnitsIdle
SpecPerfRampDown == InitPerfRampDown /\ [][NextPerf]_vars

\* the VU tasks that have not ended
LiveWorkers == { w \in DOMAIN vus : vus[w].pc # "exited" }

\* the scheduler asks for fewer VUs than current_vus counts
TargetBelowCurrent ==
    U32Less(get_current_vus(perf_config.stages, elapsed), current_vus)

\* C36: while the stop flag is unset and the iteration cap has not been
\* reached, no worker exits: the manager never retires workers when the
\* scheduler's target drops below current_vus, so the number of live workers
\* is non-decreasing until stop is set.
C36_NoWorkerRetiredBeforeStop ==
    [][(~stop_signal /\ ~LimitReached) =>
          /\ \A w \in DOMAIN vus : w \in LiveWorkers => vus'[w].pc # "exited"
          /\ DOMAIN vus \subseteq DOMAIN vus'
          /\ current_vus' = current_vus \/ current_vus' = U32Inc(current_vus)]_vars

\* the target has dropped to one VU while two workers are alive and counted,
\* the manager is in its loop and stop is unset
C36_Witness ==
    /\ ~stop_signal
    /\ manager.pc = "loop"
    /\ Cardinality(LiveWorkers) = 2
    /\ current_vus = 2
    /\ get_current_vus(perf_config.stages, elapsed) = 1
    /\ TargetBelowCurrent

\* the largest target_vus of the stages
LargestTarget(stages) ==
    IF stages = <<>> THEN 0
    ELSE CHOOSE m \in { stages[i].target_vus : i \in DOMAIN stages } :
             \A i \in DOMAIN stages : stages[i].target_vus <= m

\* C37: the current_vus counter never wraps below zero and never exceeds the
\* largest stage target_vus at any instant of a load run, under every
\* interleaving of the manager's spawn-then-increment with the workers' exit
\* decrements; so every current_vus value the progress reporter reads for a
\* perf-progress event lies in that range.
C37_CurrentVusInRange ==
    /\ ~U32Less(current_vus, 0)
    /\ ~U32Less(LargestTarget(perf_config.stages), current_vus)
    /\ current_vus \in 0..LargestTarget(perf_config.stages)

(* ============= claims about the end of a load run (C38 ...) ============ *)
\* C38: in the run record returned by a load run, every threshold result was
\* evaluated against the same aggregates that the record reports in metrics:
\* each threshold's actual_value equals the corresponding statistic of
\* run.metrics, under every interleaving with workers still recording and
\* whatever time passes between the two computations.
C38_ThresholdsOnReportedAggregates ==
    PerfDone =>
        LET r == PerfRunRecord IN
        \A i \in DOMAIN r.threshold_results :
            RatEq(r.threshold_results[i].actual_value,
                  evaluate_single_threshold(r.threshold_results[i].threshold,
                                            Unwrap(r.metrics)).actual_value)

\* a VU records a metric; it emits the perf-request-completed event of the
\* metric right after (performance/executor.rs 429-448)
RecordsMetric == metrics' # metrics

\* C39: perf-completed is the last event of a load run and the final
\* aggregates are complete: after the final aggregates have been computed, no
\* worker of that run records a further metric or emits a
\* perf-request-completed event, also when a request is still in flight as
\* the 10 s shutdown wait expires.
C39_NothingAfterFinalAggregates ==
    [][IsSome(final_metrics) => ~RecordsMetric]_vars

(* ============ claims about the shape of the load (C40) ================= *)
\* the effective stage list lasts a second or more and its first stage asks
\* for a VU or more
LastingShape(stages) ==
    /\ SumDurations(stages) >= 1
    /\ stages[1].target_vus >= 1

\* C40: for every configuration whose effective stage list has a total
\* duration of at least 1 s and a first stage with target_vus >= 1 (the
\* implicit single stage built from fixed vus >= 1 and duration_secs >= 1
\* included), and no iteration cap, the manager spawns at least one worker
\* before the scheduler reports completion.
C40_WorkerSpawnedBeforeCompletion ==
    (call.fn = "manager" /\ call.pc = "left" /\ LastingShape(call.stages))
        => call.next_vu_id >= 1

====
